---- MODULE Spec2Model ----
(***************************************************************************)
(* AIDEV-GitHub: the two-pass document converter (ConverterCore.Run) and   *)
(* the text functions it calls.  Text is modelled at character level: a    *)
(* Python str is a sequence of one-character strings, so that the regular  *)
(* expressions and str methods of the source are computed, not assumed.    *)
(***************************************************************************)
EXTENDS Integers, Sequences, FiniteSets, TLC

VARIABLES
    pc,                \* the top-level step of Run that executes next
    InputFiles,        \* the Markdown files present under InputDir
    MarkdownFiles,     \* Run's local list, as _FindMarkdownFiles returned it
    idx,               \* position of the per-file loop of the current pass
    DocumentRegistry,  \* self.DocumentRegistry, in dict insertion order
    OutputFiles,       \* the files under OutputDir/docs written by pass 2
    result,            \* what the last Run returned
    Log,               \* what the current Run has done so far, in order
    runs,              \* number of Run calls made so far
    Filename,          \* input of the GetDocumentID specification
    DocID,             \* its result
    Content,           \* input of the resolver and ExtractMetadata specifications
    Resolved,          \* the results of the resolver
    SourcePath,        \* input RelativePath of the GenerateOutputPath specification
    SourceCategory,    \* its input Category
    PathOut,           \* its result
    Extracted,         \* the result of ExtractMetadata
    Returned           \* the result of the other functions called on Content

vars == <<pc, InputFiles, MarkdownFiles, idx, DocumentRegistry, OutputFiles,
          result, Log, runs, Filename, DocID, Content, Resolved,
          SourcePath, SourceCategory, PathOut, Extracted, Returned>>

runVars == <<pc, InputFiles, MarkdownFiles, idx, DocumentRegistry, OutputFiles,
             result, Log, runs>>

-----------------------------------------------------------------------------
(* Bounds of the model. *)

MaxFiles == 2      \* files present under InputDir at one time
MaxRuns == 2       \* Run calls in one behaviour
MaxSegments == 4   \* segments of a generated filename
MaxFragments == 3  \* fragments of a generated text
MaxPieces == 3     \* pieces of a generated document text

-----------------------------------------------------------------------------
(* Python str operations on character sequences. *)

Digit == {"0", "1", "2", "3", "4", "5", "6", "7", "8", "9"}

Min(S) == CHOOSE m \in S : \A n \in S : m <= n

Max(S) == CHOOSE m \in S : \A n \in S : m >= n

\* p occurs in s at position i
StartsWithAt(s, i, p) ==
    /\ i >= 1
    /\ i + Len(p) - 1 <= Len(s)
    /\ \A k \in 1..Len(p) : s[i + k - 1] = p[k]

\* Python: p in s
Contains(s, p) == \E i \in 1..(Len(s) + 1) : StartsWithAt(s, i, p)

\* the regular expression \d{2}-\d{2} matches s at position i
DocIDAt(s, i) ==
    /\ i >= 1
    /\ i + 4 <= Len(s)
    /\ s[i] \in Digit
    /\ s[i + 1] \in Digit
    /\ s[i + 2] = "-"
    /\ s[i + 3] \in Digit
    /\ s[i + 4] \in Digit

\* the regular expression $ (no MULTILINE) matches s at position j: at the
\* end of the string, or just before a newline that ends it
AtEnd(s, j) == j = Len(s) + 1 \/ (j = Len(s) /\ s[j] = "\n")

RECURSIVE Flatten(_)
Flatten(ss) == IF ss = <<>> THEN <<>> ELSE Head(ss) \o Flatten(Tail(ss))

-----------------------------------------------------------------------------
(* Utils/PathManager.py *)

MdExt == <<".", "m", "d">>

\* r'^(\d{2}-\d{2})[- _]'
PatternLeading(f) ==
    IF DocIDAt(f, 1) /\ Len(f) >= 6 /\ f[6] \in {"-", " ", "_"}
    THEN SubSeq(f, 1, 5) ELSE <<>>

\* r'^(\d{2}-\d{2})\.md$'
PatternWhole(f) ==
    IF DocIDAt(f, 1) /\ StartsWithAt(f, 6, MdExt) /\ AtEnd(f, 9)
    THEN SubSeq(f, 1, 5) ELSE <<>>

\* r'-(\d{2}-\d{2})\.md$', re.search: the leftmost match
PatternSuffix(f) ==
    LET at == {i \in 1..Len(f) : /\ f[i] = "-"
                                 /\ DocIDAt(f, i + 1)
                                 /\ StartsWithAt(f, i + 6, MdExt)
                                 /\ AtEnd(f, i + 9)}
    IN IF at = {} THEN <<>> ELSE SubSeq(f, Min(at) + 1, Min(at) + 5)

\* the list Patterns, by name
PatternsSwapped == <<"suffix", "whole", "leading">>

Patterns == <<"leading", "whole", "suffix">>

\* re.search(Pattern, Filename): group 1, or <<>> for no match
SearchPattern(Pattern, f) ==
    CASE Pattern = "leading" -> PatternLeading(f)
      [] Pattern = "whole" -> PatternWhole(f)
      [] Pattern = "suffix" -> PatternSuffix(f)

RECURSIVE TryPatterns(_, _)
TryPatterns(k, f) ==
    IF k > Len(Patterns) THEN <<>>
    ELSE LET Match == SearchPattern(Patterns[k], f)
         IN IF Match # <<>> THEN Match ELSE TryPatterns(k + 1, f)

GetDocumentID(f) == TryPatterns(1, f)

\* self.CategoryMappings: the default of ConverterCore.__init__
CategoryMappings ==
    (<<"0","0">> :> <<"n","a","v","i","g","a","t","i","o","n">>) @@
    (<<"1","0">> :> <<"v","i","s","i","o","n">>) @@
    (<<"2","0">> :> <<"s","t","a","n","d","a","r","d","s">>) @@
    (<<"3","0">> :> <<"t","e","m","p","l","a","t","e","s">>) @@
    (<<"4","0">> :> <<"k","n","o","w","l","e","d","g","e">>) @@
    (<<"5","0">> :> <<"i","m","p","l","e","m","e","n","t","a","t","i","o","n">>) @@
    (<<"6","0">> :> <<"t","e","s","t","i","n","g">>) @@
    (<<"7","0">> :> <<"d","o","c","u","m","e","n","t","a","t","i","o","n">>) @@
    (<<"8","0">> :> <<"a","r","c","h","i","v","e","s">>) @@
    (<<"9","0">> :> <<"r","e","f","e","r","e","n","c","e","s">>)

\* s.split(sep)[0] for a one-character sep
BeforeFirst(s, sep) ==
    LET at == {i \in 1..Len(s) : s[i] = sep}
    IN IF at = {} THEN s ELSE SubSeq(s, 1, Min(at) - 1)

GetCategoryByID(Id, Mappings) ==
    IF Id \in DOMAIN Mappings THEN Mappings[Id] ELSE <<>>

GetCategory(Id, Mappings) ==
    IF Id = <<>> THEN <<>>
    ELSE LET Prefix == IF \E i \in 1..Len(Id) : Id[i] = "-"
                       THEN BeforeFirst(Id, "-")
                       ELSE SubSeq(Id, 1, IF Len(Id) < 2 THEN Len(Id) ELSE 2)
         IN IF Prefix \in DOMAIN Mappings THEN Mappings[Prefix] ELSE <<>>

\* pathlib: PurePath.name, the part after the last "/"
PathName(p) ==
    LET at == {i \in 1..Len(p) : p[i] = "/"}
    IN IF at = {} THEN p ELSE SubSeq(p, Max(at) + 1, Len(p))

\* pathlib: PurePath.stem and PurePath.with_suffix('.md'); the suffix starts
\* at the last "." of the name unless that "." is its first or last character
SuffixStart(name) ==
    LET at == {i \in 1..Len(name) : name[i] = "."}
    IN IF at = {} \/ Max(at) = 1 \/ Max(at) = Len(name)
       THEN Len(name) + 1 ELSE Max(at)

PathStem(p) == SubSeq(PathName(p), 1, SuffixStart(PathName(p)) - 1)

WithSuffixMd(p) ==
    SubSeq(p, 1, Len(p) - Len(PathName(p))) \o PathStem(p) \o MdExt

DocsDir == <<"/", "d", "o", "c", "s", "/">>

GenerateOutputPathByCategory(RelativePath, Category, OutputDir) ==
    IF Category # <<>>
    THEN OutputDir \o DocsDir \o Category \o <<"/">>
         \o GetDocumentID(PathName(RelativePath)) \o MdExt
    ELSE OutputDir \o DocsDir \o WithSuffixMd(RelativePath)

GenerateOutputPath(RelativePath, Category, OutputDir) ==
    LET Id == GetDocumentID(PathName(RelativePath))
    IN IF Category # <<>> /\ Id # <<>>
       THEN OutputDir \o DocsDir \o Category \o <<"/">> \o Id \o MdExt
       ELSE OutputDir \o DocsDir \o WithSuffixMd(RelativePath)

-----------------------------------------------------------------------------
(* Core/DocumentProcessor.py *)

Whitespace == {" ", "\t", "\n", "\r"}

\* line.strip() == ''
IsBlank(line) == \A i \in 1..Len(line) : line[i] \in Whitespace

\* s.strip()
Strip(s) ==
    LET keep == {i \in 1..Len(s) : s[i] \notin Whitespace}
    IN IF keep = {} THEN <<>> ELSE SubSeq(s, Min(keep), Max(keep))

\* s.split('\n'), from position i
RECURSIVE SplitLinesFrom(_, _)
SplitLinesFrom(s, i) ==
    LET at == {j \in i..Len(s) : s[j] = "\n"}
    IN IF at = {} THEN <<SubSeq(s, i, Len(s))>>
       ELSE <<SubSeq(s, i, Min(at) - 1)>> \o SplitLinesFrom(s, Min(at) + 1)

SplitLines(s) == SplitLinesFrom(s, 1)

\* '\n'.join(Lines[k:]) for a 1-based k
RECURSIVE JoinLinesFrom(_, _)
JoinLinesFrom(Lines, k) ==
    IF k > Len(Lines) THEN <<>>
    ELSE IF k = Len(Lines) THEN Lines[k]
    ELSE Lines[k] \o <<"\n">> \o JoinLinesFrom(Lines, k + 1)

CreatedMarker == <<"*","*","C","r","e","a","t","e","d",":">>

ModifiedMarker == <<"*","*","L","a","s","t"," ","M","o","d","i","f","i","e","d",":">>

\* the first loop of RemoveMetadataHeader: timestamps and blank lines
RECURSIVE SkipTimestamps(_, _)
SkipTimestamps(Lines, k) ==
    IF k <= Len(Lines) /\ (\/ StartsWithAt(Lines[k], 1, CreatedMarker)
                           \/ StartsWithAt(Lines[k], 1, ModifiedMarker)
                           \/ IsBlank(Lines[k]))
    THEN SkipTimestamps(Lines, k + 1) ELSE k

\* the second loop of RemoveMetadataHeader: tag lines and blank lines
RECURSIVE SkipTags(_, _)
SkipTags(Lines, k) ==
    IF k <= Len(Lines) /\ (\/ (StartsWithAt(Lines[k], 1, <<"[">>)
                               /\ Contains(Lines[k], <<"]">>))
                           \/ IsBlank(Lines[k]))
    THEN SkipTags(Lines, k + 1) ELSE k

RemoveMetadataHeaderAnywhere(Text) ==
    LET Lines == SplitLines(Text)
        StartIndex == IF StartsWithAt(Lines[1], 1, <<"#", " ">>) THEN 2 ELSE 1
        Kept == SelectSeq(SubSeq(Lines, SkipTags(Lines, SkipTimestamps(Lines, StartIndex)),
                                 Len(Lines)),
                          LAMBDA line : ~StartsWithAt(line, 1, CreatedMarker))
    IN JoinLinesFrom(Kept, 1)

RemoveMetadataHeader(Text) ==
    LET Lines == SplitLines(Text)
        StartIndex == IF StartsWithAt(Lines[1], 1, <<"#", " ">>) THEN 2 ELSE 1
    IN JoinLinesFrom(Lines, SkipTags(Lines, SkipTimestamps(Lines, StartIndex)))

\* s.replace(old, new), from position i: leftmost occurrences, not overlapping
RECURSIVE ReplaceFrom(_, _, _, _)
ReplaceFrom(s, i, old, new) ==
    LET at == {k \in i..Len(s) : StartsWithAt(s, k, old)}
    IN IF at = {} THEN SubSeq(s, i, Len(s))
       ELSE SubSeq(s, i, Min(at) - 1) \o new
            \o ReplaceFrom(s, Min(at) + Len(old), old, new)

Replace(s, old, new) == ReplaceFrom(s, 1, old, new)

ProcessJekyllIncompatibleContent(Text) ==
    LET c1 == Replace(Text, <<"{","%"," ">>,
                      <<"{","{"," ","\"","{","%"," ","\""," ","}","}">>)
        c2 == Replace(c1, <<"{","{"," ">>,
                      <<"{","{"," ","\"","{","{"," ","\""," ","}","}">>)
        c3 == Replace(c2, <<" ","}","}">>,
                      <<" ","{","{"," ","\"","}","}","\""," ","}","}">>)
        c4 == Replace(c3, <<" ","%","}">>,
                      <<" ","{","{"," ","\"","%","}","\""," ","}","}">>)
        c5 == Replace(c4, <<"{","{","{">>,
                      <<"&","#","1","2","3",";","&","#","1","2","3",";","&","#","1","2","3",";">>)
    IN Replace(c5, <<"}","}","}">>,
               <<"&","#","1","2","5",";","&","#","1","2","5",";","&","#","1","2","5",";">>)

\* re.sub(r'<box>(.*?)$', r'<html>\1', line) on one line: the match runs from
\* the leftmost box to the end of the line, so only that box is rewritten
ReplaceFirst(line, old, new) ==
    LET at == {i \in 1..Len(line) : StartsWithAt(line, i, old)}
    IN IF at = {} THEN line
       ELSE SubSeq(line, 1, Min(at) - 1) \o new
            \o SubSeq(line, Min(at) + Len(old), Len(line))

\* re.sub with re.MULTILINE, line by line
RECURSIVE MapLines(_, _, _, _)
MapLines(Lines, k, old, new) ==
    IF k > Len(Lines) THEN <<>>
    ELSE <<ReplaceFirst(Lines[k], old, new)>> \o MapLines(Lines, k + 1, old, new)

TaskListSub(Text, old, new) ==
    JoinLinesFrom(MapLines(SplitLines(Text), 1, old, new), 1)

\* CodeBlockReplacer returns the text it matched ('```' + Language + '\n' +
\* Code + '```'), so the first re.sub changes nothing; the task lists remain
ProcessSpecialSyntax(Text) ==
    LET c1 == TaskListSub(Text, <<"-"," ","["," ","]"," ">>,
                  <<"-"," ","<","i","n","p","u","t"," ","t","y","p","e","=","\"","c","h","e","c","k","b","o","x","\""," ","d","i","s","a","b","l","e","d",">"," ">>)
    IN TaskListSub(c1, <<"-"," ","[","x","]"," ">>,
                  <<"-"," ","<","i","n","p","u","t"," ","t","y","p","e","=","\"","c","h","e","c","k","b","o","x","\""," ","c","h","e","c","k","e","d"," ","d","i","s","a","b","l","e","d",">"," ">>)

ProcessDocument(Text) ==
    ProcessSpecialSyntax(ProcessJekyllIncompatibleContent(RemoveMetadataHeader(Text)))

-----------------------------------------------------------------------------
(* Core/MetadataExtractor.py.  A dict is a function from keys to values. *)

EmptyDict == [k \in {} |-> <<>>]

\* Metadata[Key] = Value
Assign(Metadata, Key, Value) ==
    [k \in DOMAIN Metadata \cup {Key} |-> IF k = Key THEN Value ELSE Metadata[k]]

\* Metadata.get(Key, Default)
Get(Metadata, Key, Default) ==
    IF Key \in DOMAIN Metadata THEN Metadata[Key] ELSE Default

TitleKey == <<"t","i","t","l","e">>

CreatedAtKey == <<"c","r","e","a","t","e","d","_","a","t">>

ModifiedAtKey == <<"m","o","d","i","f","i","e","d","_","a","t">>

DocNumberKey == <<"d","o","c","_","n","u","m","b","e","r">>

CategoryKey == <<"c","a","t","e","g","o","r","y">>

\* re.search(r'^# (.+?)$', Content, re.MULTILINE): the first line that is
\* "# " and at least one more character; group 1 is the rest of that line
TitleLines(Text) ==
    LET Lines == SplitLines(Text)
    IN {k \in 1..Len(Lines) : StartsWithAt(Lines[k], 1, <<"#", " ">>) /\ Len(Lines[k]) >= 3}

ExtractTitle(Metadata, Text) ==
    LET Lines == SplitLines(Text)
        at == TitleLines(Text)
    IN IF at = {} THEN Metadata
       ELSE Assign(Metadata, TitleKey,
                   Strip(SubSeq(Lines[Min(at)], 3, Len(Lines[Min(at)]))))

\* re.search(Marker + r'(.+?)\*\*', Content): <<start, end>> of group 1 of the
\* leftmost match, the shortest run of one or more non-newline characters
\* that two asterisks follow; <<0, 0>> for no match
MarkerEnds(s, j) ==
    {e \in (j + 1)..Len(s) : /\ StartsWithAt(s, e, <<"*", "*">>)
                             /\ \A k \in j..(e - 1) : s[k] # "\n"}

MarkerGroup(s, Marker) ==
    LET at == {i \in 1..Len(s) : /\ StartsWithAt(s, i, Marker)
                                 /\ MarkerEnds(s, i + Len(Marker)) # {}}
    IN IF at = {} THEN <<0, 0>>
       ELSE <<Min(at) + Len(Marker), Min(MarkerEnds(s, Min(at) + Len(Marker))) - 1>>

\* the verbatim field of a timestamp marker
ExtractMarker(Metadata, Text, Marker, Key) ==
    LET g == MarkerGroup(Text, Marker)
    IN IF g = <<0, 0>> THEN Metadata
       ELSE Assign(Metadata, Key, Strip(SubSeq(Text, g[1], g[2])))

\* r'\[([^:\]]+): ([^\]]+)\]' at position i: the end of the match, or 0.
\* The key runs to the first ":" and holds no "]"; the value runs to the
\* first "]" and is not empty.
TagColon(s, i) ==
    LET stop == {k \in (i + 1)..Len(s) : s[k] \in {":", "]"}}
    IN IF stop = {} THEN 0
       ELSE IF s[Min(stop)] = ":" /\ Min(stop) > i + 1 THEN Min(stop) ELSE 0

TagEnd(s, i) ==
    IF i > Len(s) \/ s[i] # "[" \/ TagColon(s, i) = 0 THEN 0
    ELSE LET c == TagColon(s, i)
             close == {k \in (c + 2)..Len(s) : s[k] = "]"}
         IN IF c + 1 <= Len(s) /\ s[c + 1] = " " /\ close # {} /\ Min(close) > c + 2
            THEN Min(close) ELSE 0

UpperCase == <<"A","B","C","D","E","F","G","H","I","J","K","L","M","N","O","P","Q","R","S","T","U","V","W","X","Y","Z">>

LowerCase == <<"a","b","c","d","e","f","g","h","i","j","k","l","m","n","o","p","q","r","s","t","u","v","w","x","y","z">>

\* s.lower()
Lower(s) ==
    [i \in 1..Len(s) |->
        IF \E k \in 1..26 : UpperCase[k] = s[i]
        THEN LowerCase[CHOOSE k \in 1..26 : UpperCase[k] = s[i]]
        ELSE s[i]]

\* the loop over re.finditer(ContextPattern, Content), from position i
RECURSIVE ExtractTags(_, _, _)
ExtractTags(Metadata, s, i) ==
    LET at == {k \in i..Len(s) : TagEnd(s, k) # 0}
    IN IF at = {} THEN Metadata
       ELSE LET c == TagColon(s, Min(at))
                e == TagEnd(s, Min(at))
            IN ExtractTags(Assign(Metadata, Lower(SubSeq(s, Min(at) + 1, c - 1)),
                                  Strip(SubSeq(s, c + 2, e - 1))),
                           s, e + 1)

\* re.search(r'(\d{2}-\d{2})', Content)
ExtractDocNumber(Metadata, Text) ==
    LET at == {i \in 1..Len(Text) : DocIDAt(Text, i)}
    IN IF at = {} THEN Metadata
       ELSE Assign(Metadata, DocNumberKey, SubSeq(Text, Min(at), Min(at) + 4))

\* ParseTimestamp.  datetime.strptime compiles a format into a regular
\* expression (case-insensitive, a run of spaces becoming \s+) that must
\* match the whole string; a parse is followed through the format as the
\* set of the states [pos, Y, M, D, H, Mi, p] that the directives read so
\* far allow.
DigitChars == <<"0","1","2","3","4","5","6","7","8","9">>

DigitValue(c) == (CHOOSE k \in 1..Len(DigitChars) : DigitChars[k] = c) - 1

\* int() of the digits s[i..j]
RECURSIVE Number(_, _, _)
Number(s, i, j) ==
    IF j < i THEN 0 ELSE 10 * Number(s, i, j - 1) + DigitValue(s[j])

AllDigits(s, i, j) == i >= 1 /\ j <= Len(s) /\ \A k \in i..j : s[k] \in Digit

\* a number of w digits at position i with a value in lo..hi: <<next, value>>
NumberAt(s, i, w, lo, hi) ==
    IF AllDigits(s, i, i + w - 1) /\ Number(s, i, i + w - 1) \in lo..hi
    THEN {<<i + w, Number(s, i, i + w - 1)>>} ELSE {}

MonthNames ==
    <<<<"J","a","n","u","a","r","y">>, <<"F","e","b","r","u","a","r","y">>, <<"M","a","r","c","h">>, <<"A","p","r","i","l">>, <<"M","a","y">>, <<"J","u","n","e">>, <<"J","u","l","y">>,
      <<"A","u","g","u","s","t">>, <<"S","e","p","t","e","m","b","e","r">>, <<"O","c","t","o","b","e","r">>, <<"N","o","v","e","m","b","e","r">>, <<"D","e","c","e","m","b","e","r">>>>

\* the positions after one or more whitespace characters from position i
AfterSpaces(s, i) ==
    {j \in (i + 1)..(Len(s) + 1) : \A k \in i..(j - 1) : s[k] \in Whitespace}

\* the states after one directive or literal of a format, from state st
Directive(d, s, st) ==
    CASE d = "%B" ->
            {[st EXCEPT !.pos = st.pos + Len(MonthNames[m]), !.M = m] :
                m \in {k \in 1..12 :
                          /\ st.pos + Len(MonthNames[k]) - 1 <= Len(s)
                          /\ Lower(SubSeq(s, st.pos, st.pos + Len(MonthNames[k]) - 1))
                                = Lower(MonthNames[k])}}
      [] d = "%d" ->
            {[st EXCEPT !.pos = n[1], !.D = n[2]] :
                n \in NumberAt(s, st.pos, 2, 1, 31) \cup NumberAt(s, st.pos, 1, 1, 9)
                      \cup (IF st.pos <= Len(s) /\ s[st.pos] = " "
                            THEN NumberAt(s, st.pos + 1, 1, 1, 9) ELSE {})}
      [] d = "%m" ->
            {[st EXCEPT !.pos = n[1], !.M = n[2]] :
                n \in NumberAt(s, st.pos, 2, 1, 12) \cup NumberAt(s, st.pos, 1, 1, 9)}
      [] d = "%Y" ->
            {[st EXCEPT !.pos = n[1], !.Y = n[2]] : n \in NumberAt(s, st.pos, 4, 0, 9999)}
      [] d = "%I" ->
            {[st EXCEPT !.pos = n[1], !.H = n[2]] :
                n \in NumberAt(s, st.pos, 2, 1, 12) \cup NumberAt(s, st.pos, 1, 1, 9)}
      [] d = "%H" ->
            {[st EXCEPT !.pos = n[1], !.H = n[2]] :
                n \in NumberAt(s, st.pos, 2, 0, 23) \cup NumberAt(s, st.pos, 1, 0, 9)}
      [] d = "%M" ->
            {[st EXCEPT !.pos = n[1], !.Mi = n[2]] :
                n \in NumberAt(s, st.pos, 2, 0, 59) \cup NumberAt(s, st.pos, 1, 0, 9)}
      [] d = "%p" ->
            IF /\ st.pos + 1 <= Len(s)
               /\ Lower(SubSeq(s, st.pos, st.pos + 1)) \in {<<"a","m">>, <<"p","m">>}
            THEN {[st EXCEPT !.pos = st.pos + 2,
                             !.p = Lower(SubSeq(s, st.pos, st.pos + 1))]}
            ELSE {}
      [] d = " " -> {[st EXCEPT !.pos = j] : j \in AfterSpaces(s, st.pos)}
      [] OTHER ->
            IF st.pos <= Len(s) /\ s[st.pos] = d
            THEN {[st EXCEPT !.pos = st.pos + 1]} ELSE {}

\* the list Formats; "%B %d, %Y  %I:%M %p" compiles as its first element does
Formats ==
    << <<"%B", " ", "%d", ",", " ", "%Y", " ", "%I", ":", "%M", " ", "%p">>,
       <<"%B", " ", "%d", ",", " ", "%Y", " ", "%I", ":", "%M", "%p">>,
       <<"%B", " ", "%d", ",", " ", "%Y", " ", "%I", ":", "%M", " ", "%p">>,
       <<"%Y", "-", "%m", "-", "%d", " ", "%H", ":", "%M">>,
       <<"%Y", "-", "%m", "-", "%d">> >>

RECURSIVE MatchFormat(_, _, _, _)
MatchFormat(Format, k, s, states) ==
    IF k > Len(Format) THEN states
    ELSE MatchFormat(Format, k + 1, s,
                     UNION {Directive(Format[k], s, st) : st \in states})

\* datetime(Year, Month, Day) exists
DaysIn(Y, M) ==
    IF M = 2 THEN (IF (Y % 4 = 0 /\ Y % 100 # 0) \/ Y % 400 = 0 THEN 29 ELSE 28)
    ELSE IF M \in {4, 6, 9, 11} THEN 30 ELSE 31

ValidDate(Y, M, D) == Y \in 1..9999 /\ M \in 1..12 /\ D \in 1..DaysIn(Y, M)

\* the hour of the day of hour H read with the AM/PM word p, <<>> for none
Hour24(H, p) ==
    IF p = <<"p","m">> THEN (IF H = 12 THEN 12 ELSE H + 12)
    ELSE IF p = <<"a","m">> THEN (IF H = 12 THEN 0 ELSE H)
    ELSE H

\* datetime.strptime(s, Format): the <<Y, M, D, hour, minute>> it can return
Strptime(s, Format) ==
    {<<st.Y, st.M, st.D, Hour24(st.H, st.p), st.Mi>> :
        st \in {x \in MatchFormat(Format, 1, s,
                                  {[pos |-> 1, Y |-> 0, M |-> 0, D |-> 0,
                                    H |-> 0, Mi |-> 0, p |-> <<>>]}) :
                   x.pos = Len(s) + 1 /\ ValidDate(x.Y, x.M, x.D)}}

IsUpper(c) == \E k \in 1..Len(UpperCase) : UpperCase[k] = c

IsLower(c) == \E k \in 1..Len(LowerCase) : LowerCase[k] = c

\* the first position from i on that holds no whitespace: the end of \s*
SkipSpaces(s, i) ==
    Min({k \in i..(Len(s) + 1) : k = Len(s) + 1 \/ s[k] \notin Whitespace})

\* the width of the greedy \d{1,2} at position i, 0 for no digit
DigitsWidth(s, i) ==
    IF AllDigits(s, i, i + 1) THEN 2 ELSE IF AllDigits(s, i, i) THEN 1 ELSE 0

\* the flexible approach of ParseTimestamp: re.match of
\* ([A-Z][a-z]+)\s+(\d{1,2}),?\s+(\d{4})\s+(\d{1,2}):(\d{2})\s*([AP]M)?
\* the groups of the match (AMPM <<>> for None), or <<>> for no match
FlexibleMatch(s) ==
    LET m0 == Min({k \in 2..(Len(s) + 1) : k = Len(s) + 1 \/ ~IsLower(s[k])})
        d0 == SkipSpaces(s, m0)
        dw == DigitsWidth(s, d0)
        c0 == IF d0 + dw <= Len(s) /\ s[d0 + dw] = "," THEN d0 + dw + 1 ELSE d0 + dw
        y0 == SkipSpaces(s, c0)
        h0 == SkipSpaces(s, y0 + 4)
        hw == DigitsWidth(s, h0)
        a0 == SkipSpaces(s, h0 + hw + 3)
    IN IF /\ Len(s) >= 2
          /\ IsUpper(s[1])
          /\ m0 > 2
          /\ d0 > m0
          /\ dw > 0
          /\ y0 > c0
          /\ AllDigits(s, y0, y0 + 3)
          /\ h0 > y0 + 4
          /\ hw > 0
          /\ h0 + hw <= Len(s)
          /\ s[h0 + hw] = ":"
          /\ AllDigits(s, h0 + hw + 1, h0 + hw + 2)
       THEN [Month |-> SubSeq(s, 1, m0 - 1),
             Day |-> SubSeq(s, d0, d0 + dw - 1),
             Year |-> SubSeq(s, y0, y0 + 3),
             Hour |-> SubSeq(s, h0, h0 + hw - 1),
             Minute |-> SubSeq(s, h0 + hw + 1, h0 + hw + 2),
             AMPM |-> IF a0 + 1 <= Len(s)
                         /\ SubSeq(s, a0, a0 + 1) \in {<<"A","M">>, <<"P","M">>}
                      THEN SubSeq(s, a0, a0 + 1) ELSE <<>>]
       ELSE <<>>

\* int(s) of a string of digits
ToInt(s) == Number(s, 1, Len(s))

FlexibleDateNoMeridiem(Match) ==
    IF /\ \E k \in 1..12 : MonthNames[k] = Match.Month
       /\ ValidDate(ToInt(Match.Year), CHOOSE k \in 1..12 : MonthNames[k] = Match.Month,
                    ToInt(Match.Day))
       /\ ToInt(Match.Hour) <= 23
       /\ ToInt(Match.Minute) <= 59
    THEN {<<ToInt(Match.Year), CHOOSE k \in 1..12 : MonthNames[k] = Match.Month,
            ToInt(Match.Day), ToInt(Match.Hour), ToInt(Match.Minute)>>}
    ELSE {}

\* the month lookup, the AM/PM adjustment and datetime(Year, MonthNum, Day,
\* Hour, Minute) on the groups of a match: the <<Y, M, D, hour, minute>>
\* returned, none when ValueError is raised
FlexibleDate(Match) ==
    LET Hour == IF Match.AMPM = <<"P","M">> /\ ToInt(Match.Hour) < 12 THEN ToInt(Match.Hour) + 12
                ELSE IF Match.AMPM = <<"A","M">> /\ ToInt(Match.Hour) = 12 THEN 0
                ELSE ToInt(Match.Hour)
    IN IF /\ \E k \in 1..12 : MonthNames[k] = Match.Month
          /\ ValidDate(ToInt(Match.Year), CHOOSE k \in 1..12 : MonthNames[k] = Match.Month,
                       ToInt(Match.Day))
          /\ Hour <= 23
          /\ ToInt(Match.Minute) <= 59
       THEN {<<ToInt(Match.Year), CHOOSE k \in 1..12 : MonthNames[k] = Match.Month,
               ToInt(Match.Day), Hour, ToInt(Match.Minute)>>}
       ELSE {}

\* if Match: ... ; raise ValueError
Flexible(s) ==
    UNION {IF Match = <<>> THEN {} ELSE FlexibleDate(Match) : Match \in {FlexibleMatch(s)}}

\* the loop over Formats, then the flexible approach
RECURSIVE TryFormats(_, _)
TryFormats(k, s) ==
    IF k > Len(Formats) THEN Flexible(s)
    ELSE IF Strptime(s, Formats[k]) # {} THEN Strptime(s, Formats[k])
    ELSE TryFormats(k + 1, s)

\* ParseTimestamp(TimestampStr): the <<Y, M, D, hour, minute>> of the
\* datetime it returns, or <<>> when it raises ValueError
ParseTimestamp(TimestampStr) ==
    CHOOSE d \in {IF r = {} THEN <<>> ELSE CHOOSE x \in r : TRUE :
                     r \in {TryFormats(1, s) : s \in {TimestampStr}}} : TRUE

\* str(n) for n >= 0
RECURSIVE Decimal(_)
Decimal(n) ==
    IF n < 10 THEN <<DigitChars[n + 1]>>
    ELSE Decimal(n \div 10) \o <<DigitChars[(n % 10) + 1]>>

TwoDigits(n) == IF n < 10 THEN <<"0">> \o Decimal(n) ELSE Decimal(n)

\* Date.strftime("%Y-%m-%d"): the C library does not pad the year
FormatDate(d) == Decimal(d[1]) \o <<"-">> \o TwoDigits(d[2]) \o <<"-">> \o TwoDigits(d[3])

CreatedDateKey == <<"c","r","e","a","t","e","d","_","d","a","t","e">>

ModifiedDateKey == <<"m","o","d","i","f","i","e","d","_","d","a","t","e">>

\* the try block after a marker matched: the normalized field, unless
\* ParseTimestamp raises
ExtractDate(Metadata, AtKey, DateKey) ==
    IF AtKey \notin DOMAIN Metadata THEN Metadata
    ELSE CHOOSE m \in {IF d = <<>> THEN Metadata ELSE Assign(Metadata, DateKey, FormatDate(d)) :
                          d \in {ParseTimestamp(Metadata[AtKey])}} : TRUE

CreatedPattern == <<"*","*","C","r","e","a","t","e","d",":"," ">>

ModifiedPattern == <<"*","*","L","a","s","t"," ","M","o","d","i","f","i","e","d",":"," ">>

\* the dictionary of each step is computed once and handed to the next
ExtractMetadata(Text) ==
    CHOOSE Metadata \in
        {ExtractDocNumber(m4, Text) :
            m4 \in {ExtractTags(m3, Text, 1) :
            m3 \in {ExtractDate(ExtractMarker(m2, Text, ModifiedPattern, ModifiedAtKey),
                                ModifiedAtKey, ModifiedDateKey) :
            m2 \in {ExtractDate(ExtractMarker(m1, Text, CreatedPattern, CreatedAtKey),
                                CreatedAtKey, CreatedDateKey) :
            m1 \in {ExtractTitle(EmptyDict, Text)}}}}} : TRUE

-----------------------------------------------------------------------------
(* Core/CrossReferenceProcessor.py.  A registry is the sequence of its     *)
(* entries in dict insertion order, each with its key in the field id.     *)

\* DocID in DocumentRegistry
InRegistry(Registry, Id) == \E k \in 1..Len(Registry) : Registry[k].id = Id

\* DocumentRegistry[DocID]
Entry(Registry, Id) == Registry[CHOOSE k \in 1..Len(Registry) : Registry[k].id = Id]

\* the first position from j on that holds no digit: the end of \d+
DigitsEnd(s, j) ==
    Min({k \in j..(Len(s) + 1) : k = Len(s) + 1 \/ s[k] \notin Digit})

\* r'\[(\d{2}-\d{2})\]' at position i
DocRefAt(s, i) ==
    /\ i + 6 <= Len(s)
    /\ s[i] = "["
    /\ DocIDAt(s, i + 1)
    /\ s[i + 6] = "]"

ReplaceDocRefTitled(Match, Registry) ==
    IF InRegistry(Registry, SubSeq(Match, 2, 6))
    THEN <<"[">> \o Entry(Registry, SubSeq(Match, 2, 6)).title \o <<"]", "(">>
         \o Entry(Registry, SubSeq(Match, 2, 6)).url \o <<")">>
    ELSE Match

ReplaceDocRefUnresolved(Match, Registry) == Match

ReplaceDocRef(Match, Registry) ==
    LET Id == SubSeq(Match, 2, 6)
    IN IF InRegistry(Registry, Id)
       THEN <<"[">> \o Id \o <<"]", "(">> \o Entry(Registry, Id).url \o <<")">>
       ELSE Match

\* re.sub(Pattern, ReplaceDocRef, Content), from position i
RECURSIVE SubDocRefs(_, _, _)
SubDocRefs(s, i, Registry) ==
    LET at == {k \in i..Len(s) : DocRefAt(s, k)}
    IN IF at = {} THEN SubSeq(s, i, Len(s))
       ELSE SubSeq(s, i, Min(at) - 1)
            \o ReplaceDocRef(SubSeq(s, Min(at), Min(at) + 6), Registry)
            \o SubDocRefs(s, Min(at) + 7, Registry)

\* r'\[(\d{2}-\d{2}) §(\d+\.\d+)\]' at position i: the position of the
\* closing bracket, or 0
SectionRefEnd(s, i) ==
    IF /\ i + 7 <= Len(s)
       /\ s[i] = "["
       /\ DocIDAt(s, i + 1)
       /\ s[i + 6] = " "
       /\ s[i + 7] = "§"
    THEN LET d == DigitsEnd(s, i + 8)
         IN IF d > i + 8 /\ d <= Len(s) /\ s[d] = "."
            THEN LET e == DigitsEnd(s, d + 1)
                 IN IF e > d + 1 /\ e <= Len(s) /\ s[e] = "]" THEN e ELSE 0
            ELSE 0
    ELSE 0

ReplaceSectionRefAlways(Match, Registry) ==
    SubSeq(Match, 1, Len(Match)) \o <<"(", "#">>
    \o Replace(SubSeq(Match, 9, Len(Match) - 1), <<".">>, <<>>) \o <<")">>

ReplaceSectionRefDotted(Match, Registry) ==
    IF InRegistry(Registry, SubSeq(Match, 2, 6))
    THEN Match \o <<"(">> \o Entry(Registry, SubSeq(Match, 2, 6)).url \o <<"#">>
         \o SubSeq(Match, 9, Len(Match) - 1) \o <<")">>
    ELSE Match

ReplaceSectionRef(Match, Registry) ==
    LET Id == SubSeq(Match, 2, 6)
        Section == SubSeq(Match, 9, Len(Match) - 1)
        Anchor == Replace(Lower(Section), <<".">>, <<>>)
    IN IF InRegistry(Registry, Id)
       THEN <<"[">> \o Id \o <<" ", "§">> \o Section \o <<"]", "(">>
            \o Entry(Registry, Id).url \o <<"#">> \o Anchor \o <<")">>
       ELSE Match

RECURSIVE SubSectionRefs(_, _, _)
SubSectionRefs(s, i, Registry) ==
    LET at == {k \in i..Len(s) : SectionRefEnd(s, k) # 0}
    IN IF at = {} THEN SubSeq(s, i, Len(s))
       ELSE SubSeq(s, i, Min(at) - 1)
            \o ReplaceSectionRef(SubSeq(s, Min(at), SectionRefEnd(s, Min(at))), Registry)
            \o SubSectionRefs(s, SectionRefEnd(s, Min(at)) + 1, Registry)

DecisionWord == <<"D","E","C","I","S","I","O","N">>

\* r'\[(DECISION-\d{8}-\d+)\]' at position i: the position of the closing
\* bracket, or 0
DecisionRefEnd(s, i) ==
    IF /\ i + 18 <= Len(s)
       /\ s[i] = "["
       /\ StartsWithAt(s, i + 1, DecisionWord \o <<"-">>)
       /\ \A k \in (i + 10)..(i + 17) : s[k] \in Digit
       /\ s[i + 18] = "-"
    THEN LET e == DigitsEnd(s, i + 19)
         IN IF e > i + 19 /\ e <= Len(s) /\ s[e] = "]" THEN e ELSE 0
    ELSE 0

GovernancePath == <<"{","{"," ","s","i","t","e",".","b","a","s","e","u","r","l"," ","}","}","/","d","o","c","s","/","g","o","v","e","r","n","a","n","c","e","/","d","e","c","i","s","i","o","n","s","/","#">>

ReplaceDecisionRefFoundOnly(Match, Registry) ==
    LET DecisionID == SubSeq(Match, 2, Len(Match) - 1)
        found == {k \in 1..Len(Registry) :
                     /\ StartsWithAt(Registry[k].title, 1, DecisionWord)
                     /\ Contains(Registry[k].title, DecisionID)}
    IN IF found # {}
       THEN <<"[">> \o DecisionID \o <<"]", "(">> \o Registry[Min(found)].url
            \o <<"#">> \o Lower(DecisionID) \o <<")">>
       ELSE Match

ReplaceDecisionRef(Match, Registry) ==
    LET DecisionID == SubSeq(Match, 2, Len(Match) - 1)
        found == {k \in 1..Len(Registry) :
                     /\ StartsWithAt(Registry[k].title, 1, DecisionWord)
                     /\ Contains(Registry[k].title, DecisionID)}
    IN IF found # {}
       THEN <<"[">> \o DecisionID \o <<"]", "(">> \o Registry[Min(found)].url
            \o <<"#">> \o Lower(DecisionID) \o <<")">>
       ELSE <<"[">> \o DecisionID \o <<"]", "(">> \o GovernancePath
            \o Lower(DecisionID) \o <<")">>

RECURSIVE SubDecisionRefs(_, _, _)
SubDecisionRefs(s, i, Registry) ==
    LET at == {k \in i..Len(s) : DecisionRefEnd(s, k) # 0}
    IN IF at = {} THEN SubSeq(s, i, Len(s))
       ELSE SubSeq(s, i, Min(at) - 1)
            \o ReplaceDecisionRef(SubSeq(s, Min(at), DecisionRefEnd(s, Min(at))), Registry)
            \o SubDecisionRefs(s, DecisionRefEnd(s, Min(at)) + 1, Registry)

ProcessCrossReferences(Text, Registry) ==
    SubDecisionRefs(SubSectionRefs(SubDocRefs(Text, 1, Registry), 1, Registry),
                    1, Registry)

\* if x not in list: list.append(x)
AppendNew(list, x) ==
    IF \E k \in 1..Len(list) : list[k] = x THEN list ELSE Append(list, x)

\* the loop over re.finditer(DocPattern, Content), from position i
RECURSIVE FindDocRefs(_, _, _)
FindDocRefs(s, i, References) ==
    LET at == {k \in i..Len(s) : DocRefAt(s, k)}
    IN IF at = {} THEN References
       ELSE FindDocRefs(s, Min(at) + 7,
                [References EXCEPT
                    !.documents = AppendNew(@, SubSeq(s, Min(at) + 1, Min(at) + 5))])

\* the loop over re.finditer(SectionPattern, Content), from position i
RECURSIVE FindSectionRefs(_, _, _)
FindSectionRefs(s, i, References) ==
    LET at == {k \in i..Len(s) : SectionRefEnd(s, k) # 0}
    IN IF at = {} THEN References
       ELSE LET e == SectionRefEnd(s, Min(at))
                Id == SubSeq(s, Min(at) + 1, Min(at) + 5)
                Section == SubSeq(s, Min(at) + 8, e - 1)
                SectionRef == Id \o <<" ", "§">> \o Section
            IN FindSectionRefs(s, e + 1,
                   [References EXCEPT !.sections = AppendNew(@, SectionRef),
                                      !.documents = AppendNew(@, Id)])

\* the loop over re.finditer(DecisionPattern, Content), from position i
RECURSIVE FindDecisionRefs(_, _, _)
FindDecisionRefs(s, i, References) ==
    LET at == {k \in i..Len(s) : DecisionRefEnd(s, k) # 0}
    IN IF at = {} THEN References
       ELSE LET e == DecisionRefEnd(s, Min(at))
            IN FindDecisionRefs(s, e + 1,
                   [References EXCEPT
                       !.decisions = AppendNew(@, SubSeq(s, Min(at) + 1, e - 1))])

ExtractReferences(Text) ==
    FindDecisionRefs(Text, 1,
        FindSectionRefs(Text, 1,
            FindDocRefs(Text, 1, [documents |-> <<>>, sections |-> <<>>, decisions |-> <<>>])))

\* SectionRef.split(" §")[0]
SectionDocID(SectionRef) ==
    LET at == {k \in 1..Len(SectionRef) : StartsWithAt(SectionRef, k, <<" ", "§">>)}
    IN IF at = {} THEN SectionRef ELSE SubSeq(SectionRef, 1, Min(at) - 1)

\* the search of ValidateReferences through DocumentRegistry.values()
DecisionFound(DecisionID, Registry) ==
    \E k \in 1..Len(Registry) :
        /\ StartsWithAt(Registry[k].title, 1, DecisionWord)
        /\ Contains(Registry[k].title, DecisionID)

ValidateReferencesByKey(References, Registry) ==
    [documents |-> SelectSeq(References.documents,
                             LAMBDA Id : ~InRegistry(Registry, Id)),
     sections |-> SelectSeq(References.sections,
                            LAMBDA SectionRef : ~InRegistry(Registry, SectionDocID(SectionRef))),
     decisions |-> SelectSeq(References.decisions,
                             LAMBDA DecisionID : ~InRegistry(Registry, DecisionID))]

ValidateReferences(References, Registry) ==
    [documents |-> SelectSeq(References.documents,
                             LAMBDA Id : ~InRegistry(Registry, Id)),
     sections |-> SelectSeq(References.sections,
                            LAMBDA SectionRef : ~InRegistry(Registry, SectionDocID(SectionRef))),
     decisions |-> SelectSeq(References.decisions,
                             LAMBDA DecisionID : ~DecisionFound(DecisionID, Registry))]

-----------------------------------------------------------------------------
(* Core/JekyllGenerator.py.  The YAML block is the sequence of its         *)
(* <<key, value>> pairs in the order yaml.dump(sort_keys=False) emits them.*)

OptionalFields == <<<<"c","o","n","t","e","x","t">>, <<"s","t","a","t","u","s">>, <<"v","e","r","s","i","o","n">>, <<"c","o","m","p","o","n","e","n","t">>, <<"p","r","i","o","r","i","t","y">>>>

RECURSIVE OptionalPairsPresent(_, _)
OptionalPairsPresent(Metadata, k) ==
    IF k > Len(OptionalFields) THEN <<>>
    ELSE (IF OptionalFields[k] \in DOMAIN Metadata
          THEN <<<<OptionalFields[k], Metadata[OptionalFields[k]]>>>> ELSE <<>>)
         \o OptionalPairsPresent(Metadata, k + 1)

RECURSIVE OptionalPairs(_, _)
OptionalPairs(Metadata, k) ==
    IF k > Len(OptionalFields) THEN <<>>
    ELSE (IF OptionalFields[k] \in DOMAIN Metadata /\ Metadata[OptionalFields[k]] # <<>>
          THEN <<<<OptionalFields[k], Metadata[OptionalFields[k]]>>>> ELSE <<>>)
         \o OptionalPairs(Metadata, k + 1)

GenerateJekyllFrontMatter(Metadata) ==
    <<<<<<"l","a","y","o","u","t">>, <<"d","o","c","u","m","e","n","t">>>>,
      <<TitleKey, Get(Metadata, TitleKey, <<"U","n","t","i","t","l","e","d"," ","D","o","c","u","m","e","n","t">>)>>,
      <<DocNumberKey, Get(Metadata, DocNumberKey, <<>>)>>,
      <<CategoryKey, Get(Metadata, CategoryKey, <<>>)>>>>
    \o (IF CreatedAtKey \in DOMAIN Metadata
        THEN <<<<CreatedAtKey, Metadata[CreatedAtKey]>>>> ELSE <<>>)
    \o (IF ModifiedAtKey \in DOMAIN Metadata
        THEN <<<<ModifiedAtKey, Metadata[ModifiedAtKey]>>>> ELSE <<>>)
    \o OptionalPairs(Metadata, 1)

\* the except branch: one "Key: Value" line for each pair of FrontMatter
\* whose value is not None, in the order of the dict; no value is None here
ManualFrontMatter(Metadata) ==
    SelectSeq(GenerateJekyllFrontMatter(Metadata), LAMBDA pair : pair[2] # "None")

-----------------------------------------------------------------------------
(* Core/ConverterCore.py: the environment of one converter.                *)

\* ConverterCore.__init__: BaseURL has its default, OutputDir is "out"
BaseURL == <<"/","P","r","o","j","e","c","t","H","i","m","a","l","a","y","a">>

OutputDir == <<"o","u","t">>

\* the Markdown files that may exist under InputDir, by relative path
FileIds == {"f1", "f2", "f3", "f4", "f5", "f6"}

RelPath(f) ==
    CASE f = "f1" -> <<"1","0","-","2","0","-","V",".","m","d">>
      [] f = "f2" -> <<"2","0","-","1","0","-","S",".","m","d">>
      [] f = "f3" -> <<"R","E","A","D","M","E",".","m","d">>
      [] f = "f4" -> <<"V","-","1","0","-","2","0",".","m","d">>
      [] f = "f5" -> <<"a","/","1","5","-","0","1",".","m","d">>
      [] f = "f6" -> <<"8","0","-","0","1","-","D",".","m","d">>

\* what LoadDocument returns for each of them
FileContent(f) ==
    CASE f = "f1" -> <<"#"," ","V","\n","s","e","e"," ","[","1","0","-","2","0","]"," ","a","n","d"," ","[","2","0","-","1","0","]">>
      [] f = "f2" -> <<"#"," ","S","\n","*","*","C","r","e","a","t","e","d",":"," ","2","0","2","5","-","0","3","-","1","5","*","*","\n","\n","s","e","e"," ","[","1","0","-","2","0","]">>
      [] f = "f3" -> <<"#"," ","R","\n","[","1","0","-","2","0","]">>
      [] f = "f4" -> <<"a","l","s","o"," ","[","2","0","-","1","0","]">>
      [] f = "f5" -> <<"#"," ","D","E","C","I","S","I","O","N","-","2","0","2","5","0","1","0","1","-","1"," ","b","\n","[","C","a","t","e","g","o","r","y",":"," ","q","]"," ","[","D","o","c","_","n","u","m","b","e","r",":"," ","7","]","\n","z">>
      [] f = "f6" -> <<"#"," ","D","E","C","I","S","I","O","N","-","2","0","2","5","0","1","0","1","-","1","\n","b","y"," ","[","D","E","C","I","S","I","O","N","-","2","0","2","5","0","1","0","1","-","1","]">>

\* the orders in which Path.glob may list a set of files
Orders(S) ==
    {s \in [1..Cardinality(S) -> S] : \A i, j \in 1..Cardinality(S) : i # j => s[i] # s[j]}

Event(step, file, outcome, path) ==
    [step |-> step, file |-> file, outcome |-> outcome, path |-> path]

-----------------------------------------------------------------------------
(* ConverterCore.Run, one action per top-level call and per loop iteration *)

RunStepsPassesSwapped ==
    <<"EnsureDirectoryExists", "_CreateJekyllStructure", "_FindMarkdownFiles",
      "_ProcessDocuments", "_BuildDocumentRegistry", "_GenerateCategoryPages",
      "_CreateMainIndex", "_CreateSearchIndex", "_CopyAssets">>

\* the calls of Run's try block, in order
RunSteps ==
    <<"EnsureDirectoryExists", "_CreateJekyllStructure", "_FindMarkdownFiles",
      "_BuildDocumentRegistry", "_ProcessDocuments", "_GenerateCategoryPages",
      "_CreateMainIndex", "_CreateSearchIndex", "_CopyAssets">>

\* what follows a call that returned: the next call, or Run's return True
NextStep(step) ==
    LET k == CHOOSE i \in 1..Len(RunSteps) : RunSteps[i] = step
    IN IF k = Len(RunSteps) THEN "return True" ELSE RunSteps[k + 1]

AfterStepErrorSwallowed(step) == NextStep(step)

\* what follows a call that raised: Run's except clause returns False
AfterStepError(step) == "return False"

AfterFileErrorRaised(step) == "return False"

\* what follows an exception in one iteration of a per-file loop: the
\* loop's own except clause logs it, and the loop goes on
AfterFileError(step) == step

LoopDoneEarly(i, Files) == i >= Len(Files)

\* for FilePath in MarkdownFiles: i is the position of the next file
LoopDone(i, Files) == i > Len(Files)

SkipFileNever(Id) == FALSE

\* if not DocID: continue
SkipFile(Id) == Id = <<>>

\* where control is after target n, and what Run has returned
Goto(n) ==
    /\ pc' = IF n \in {"return True", "return False"} THEN "returned" ELSE n
    /\ result' = CASE n = "return True" -> "True"
                   [] n = "return False" -> "False"
                   [] OTHER -> result

\* the paths a call writes besides the documents
Writes(step) ==
    CASE step = "_CreateJekyllStructure" -> {OutputDir \o <<"/","_","c","o","n","f","i","g",".","y","m","l">>}
      [] step = "_GenerateCategoryPages" ->
            {OutputDir \o DocsDir \o DocumentRegistry[k].category \o <<"/","i","n","d","e","x",".","m","d">> :
                k \in {i \in 1..Len(DocumentRegistry) :
                          \E p \in DOMAIN CategoryMappings :
                              CategoryMappings[p] = DocumentRegistry[i].category}}
      [] step = "_CreateMainIndex" ->
            {OutputDir \o <<"/","i","n","d","e","x",".","m","d">>, OutputDir \o <<"/","d","o","c","s","/","i","n","d","e","x",".","m","d">>,
             OutputDir \o <<"/","_","d","a","t","a","/","c","a","t","e","g","o","r","i","e","s",".","y","m","l">>}
      [] step = "_CreateSearchIndex" ->
            {OutputDir \o <<"/","s","e","a","r","c","h","/","i","n","d","e","x",".","m","d">>,
             OutputDir \o <<"/","a","s","s","e","t","s","/","j","s","/","s","e","a","r","c","h","-","i","n","d","e","x",".","j","s","o","n">>,
             OutputDir \o <<"/","_","p","l","u","g","i","n","s","/","s","e","a","r","c","h","_","i","n","d","e","x","_","g","e","n","e","r","a","t","o","r",".","r","b">>}
      [] OTHER -> {}

\* OutputFiles after WriteTextFile(path, ...) for each path of a set
WithFiles(Files, paths, file) ==
    [p \in DOMAIN Files \cup paths |-> IF p \in paths THEN file ELSE Files[p]]

Generated == [src |-> "-", front |-> <<>>, body |-> <<>>]

\* Metadata = ExtractMetadata(Content) for the content of each file
FileMetadata == [f \in FileIds |-> ExtractMetadata(FileContent(f))]

\* the entry _BuildDocumentRegistry stores for file f
RegistryEntry(f) ==
    LET Metadata == FileMetadata[f]
        Id == GetDocumentID(PathName(RelPath(f)))
        Category == GetCategory(Id, CategoryMappings)
    IN [id |-> Id,
        title |-> Get(Metadata, TitleKey, PathStem(RelPath(f))),
        path |-> GenerateOutputPath(RelPath(f), Category, OutputDir),
        category |-> Category,
        metadata |-> Metadata,
        url |-> BaseURL \o DocsDir \o Category \o <<"/">> \o Id \o <<"/">>]

\* self.DocumentRegistry[DocID] = entry: a key already present keeps its place
Register(Registry, entry) ==
    IF InRegistry(Registry, entry.id)
    THEN [k \in 1..Len(Registry) |->
             IF Registry[k].id = entry.id THEN entry ELSE Registry[k]]
    ELSE Append(Registry, entry)

JekyllContentAsExtracted(f, Registry) ==
    [src |-> f,
     front |-> GenerateJekyllFrontMatter(FileMetadata[f]),
     body |-> ProcessCrossReferences(ProcessDocument(FileContent(f)), Registry)]

\* what _ProcessDocuments writes for file f
JekyllContent(f, Registry) ==
    LET Metadata == FileMetadata[f]
        Id == GetDocumentID(PathName(RelPath(f)))
        Category == GetCategory(Id, CategoryMappings)
    IN [src |-> f,
        front |-> GenerateJekyllFrontMatter(
                      Assign(Assign(Metadata, DocNumberKey, Id), CategoryKey, Category)),
        body |-> ProcessCrossReferences(ProcessDocument(FileContent(f)), Registry)]

OutputPath(f) ==
    GenerateOutputPath(RelPath(f),
                       GetCategory(GetDocumentID(PathName(RelPath(f))), CategoryMappings),
                       OutputDir)

RegistryAfterProcessDropped(Registry, f) ==
    SelectSeq(Registry, LAMBDA e : e.id # GetDocumentID(PathName(RelPath(f))))

\* self.DocumentRegistry after one iteration of _ProcessDocuments, which
\* passes it to ProcessCrossReferences and assigns nothing to it
RegistryAfterProcess(Registry, f) == Registry

\* the variables of GenerateOutputPath and ExtractMetadata hold nothing
unused ==
    /\ SourcePath = <<>>
    /\ SourceCategory = <<>>
    /\ PathOut = <<>>
    /\ Extracted = <<>>
    /\ Returned = <<>>

pureVars == <<Filename, DocID, Content, Resolved,
             SourcePath, SourceCategory, PathOut, Extracted, Returned>>

\* Run begins
StartRun ==
    /\ runs < MaxRuns
    /\ runs' = runs + 1
    /\ pc' = RunSteps[1]
    /\ result' = "none"
    /\ Log' = <<>>
    /\ MarkdownFiles' = <<>>
    /\ idx' = 0
    /\ UNCHANGED <<InputFiles, DocumentRegistry, OutputFiles>>
    /\ UNCHANGED pureVars

\* ConvertDocuments: Run is called on a converter that has not run
Run == pc = "idle" /\ StartRun

\* Run is called again on a converter that has run
Rerun == pc = "returned" /\ StartRun

\* a call of Run that is no loop over the files: it returns or it raises
Call(step) ==
    /\ pc = step
    /\ \E ok \in BOOLEAN :
          /\ Log' = Append(Log, Event(step, "-", IF ok THEN "ok" ELSE "raised", <<>>))
          /\ OutputFiles' = IF ok THEN WithFiles(OutputFiles, Writes(step), Generated)
                            ELSE OutputFiles
          /\ Goto(IF ok THEN NextStep(step) ELSE AfterStepError(step))
    /\ UNCHANGED <<InputFiles, MarkdownFiles, idx, DocumentRegistry, runs>>
    /\ UNCHANGED pureVars

EnsureDirectoryExists == Call("EnsureDirectoryExists")

CreateJekyllStructure == Call("_CreateJekyllStructure")

GenerateCategoryPages == Call("_GenerateCategoryPages")

CreateMainIndex == Call("_CreateMainIndex")

CreateSearchIndex == Call("_CreateSearchIndex")

CopyAssets == Call("_CopyAssets")

FindMarkdownFiles ==
    /\ pc = "_FindMarkdownFiles"
    /\ \E ok \in BOOLEAN :
          /\ Log' = Append(Log, Event(pc, "-", IF ok THEN "ok" ELSE "raised", <<>>))
          /\ IF ok THEN MarkdownFiles' \in Orders(InputFiles)
                   ELSE MarkdownFiles' = MarkdownFiles
          /\ Goto(IF ok THEN NextStep(pc) ELSE AfterStepError(pc))
    /\ idx' = 1
    /\ UNCHANGED <<InputFiles, DocumentRegistry, OutputFiles, runs>>
    /\ UNCHANGED pureVars

\* one iteration of a per-file loop ended in its except clause
FileError(step, f, outcome) ==
    /\ Log' = Append(Log, Event(step, f, outcome, <<>>))
    /\ IF AfterFileError(step) = step
       THEN idx' = idx + 1 /\ UNCHANGED <<pc, result>>
       ELSE idx' = idx /\ Goto(AfterFileError(step))

\* one iteration of the loop of _BuildDocumentRegistry
BuildDocumentRegistry ==
    /\ pc = "_BuildDocumentRegistry"
    /\ ~LoopDone(idx, MarkdownFiles)
    /\ LET f == MarkdownFiles[idx]
           Id == GetDocumentID(PathName(RelPath(f)))
       IN \E loaded \in BOOLEAN :
             IF ~loaded
             THEN FileError(pc, f, "load raised") /\ UNCHANGED DocumentRegistry
             ELSE /\ IF SkipFile(Id)
                     THEN /\ Log' = Append(Log, Event(pc, f, "skipped", <<>>))
                          /\ UNCHANGED DocumentRegistry
                     ELSE /\ Log' = Append(Log, Event(pc, f, "registered",
                                                      RegistryEntry(f).path))
                          /\ DocumentRegistry' = Register(DocumentRegistry, RegistryEntry(f))
                  /\ idx' = idx + 1
                  /\ UNCHANGED <<pc, result>>
    /\ UNCHANGED <<InputFiles, MarkdownFiles, OutputFiles, runs>>
    /\ UNCHANGED pureVars

\* a per-file loop has handled its last file
LoopExit(step) ==
    /\ pc = step
    /\ LoopDone(idx, MarkdownFiles)
    /\ Log' = Append(Log, Event(step, "-", "ok", <<>>))
    /\ idx' = 1
    /\ Goto(NextStep(step))
    /\ UNCHANGED <<InputFiles, MarkdownFiles, DocumentRegistry, OutputFiles, runs>>
    /\ UNCHANGED pureVars

BuildDocumentRegistryDone == LoopExit("_BuildDocumentRegistry")

\* one iteration of the loop of _ProcessDocuments
ProcessDocuments ==
    /\ pc = "_ProcessDocuments"
    /\ ~LoopDone(idx, MarkdownFiles)
    /\ LET f == MarkdownFiles[idx]
           Id == GetDocumentID(PathName(RelPath(f)))
       IN \E loaded, written \in BOOLEAN :
             IF ~loaded
             THEN FileError(pc, f, "load raised") /\ UNCHANGED <<DocumentRegistry, OutputFiles>>
             ELSE IF SkipFile(Id)
             THEN /\ Log' = Append(Log, Event(pc, f, "skipped", <<>>))
                  /\ idx' = idx + 1
                  /\ UNCHANGED <<pc, result, DocumentRegistry, OutputFiles>>
             ELSE IF ~written
             THEN /\ FileError(pc, f, "write raised")
                  /\ DocumentRegistry' = RegistryAfterProcess(DocumentRegistry, f)
                  /\ UNCHANGED OutputFiles
             ELSE /\ Log' = Append(Log, Event(pc, f, "written", OutputPath(f)))
                  /\ OutputFiles' = WithFiles(OutputFiles, {OutputPath(f)},
                                              JekyllContent(f, DocumentRegistry))
                  /\ DocumentRegistry' = RegistryAfterProcess(DocumentRegistry, f)
                  /\ idx' = idx + 1
                  /\ UNCHANGED <<pc, result>>
    /\ UNCHANGED <<InputFiles, MarkdownFiles, runs>>
    /\ UNCHANGED pureVars

ProcessDocumentsDone == LoopExit("_ProcessDocuments")

\* ConvertDocuments builds a new ConverterCore: __init__ sets the registry
Construct ==
    /\ pc = "returned"
    /\ runs < MaxRuns
    /\ pc' = "idle"
    /\ DocumentRegistry' = <<>>
    /\ Log' = <<>>
    /\ MarkdownFiles' = <<>>
    /\ idx' = 0
    /\ UNCHANGED <<InputFiles, OutputFiles, result, runs>>
    /\ UNCHANGED pureVars

\* between two runs a source file is removed (or renamed away)
RemoveFile ==
    /\ pc = "returned"
    /\ runs < MaxRuns
    /\ \E f \in InputFiles : InputFiles' = InputFiles \ {f}
    /\ UNCHANGED <<pc, MarkdownFiles, idx, DocumentRegistry, OutputFiles, result, Log, runs>>
    /\ UNCHANGED pureVars

Init ==
    /\ pc = "idle"
    /\ InputFiles \in {S \in SUBSET FileIds : Cardinality(S) <= MaxFiles}
    /\ MarkdownFiles = <<>>
    /\ idx = 0
    /\ DocumentRegistry = <<>>
    /\ OutputFiles = [p \in {} |-> Generated]
    /\ result = "none"
    /\ Log = <<>>
    /\ runs = 0
    /\ Filename = <<>>
    /\ DocID = <<>>
    /\ Content = <<>>
    /\ Resolved = <<>>
    /\ unused

Next ==
    \/ Run
    \/ EnsureDirectoryExists
    \/ CreateJekyllStructure
    \/ FindMarkdownFiles
    \/ BuildDocumentRegistry
    \/ BuildDocumentRegistryDone
    \/ ProcessDocuments
    \/ ProcessDocumentsDone
    \/ GenerateCategoryPages
    \/ CreateMainIndex
    \/ CreateSearchIndex
    \/ CopyAssets

\* one Run of a new converter, as ConvertDocuments makes it
Spec == Init /\ [][Next]_vars

NextRuns ==
    \/ Next
    \/ Rerun
    \/ Construct
    \/ RemoveFile

\* converters that run again, and source files that go away between runs
SpecRuns == Init /\ [][NextRuns]_vars

-----------------------------------------------------------------------------
(* GetDocumentID on generated filenames. *)

Segments ==
    {<<"1","2","-","2","1">>, <<"2","1","-","1","2">>, <<"-">>, <<"_">>, <<" ">>, <<"a">>, <<"1">>, <<".","m","d">>}

\* the concatenations of at most n elements of S
Concatenations(S, n) ==
    {Flatten(q) : q \in UNION {[1..k -> S] : k \in 0..n}}

idle ==
    /\ pc = "idle"
    /\ InputFiles = {}
    /\ MarkdownFiles = <<>>
    /\ idx = 0
    /\ OutputFiles = [p \in {} |-> Generated]
    /\ result = "none"
    /\ Log = <<>>
    /\ runs = 0

InitId ==
    /\ idle
    /\ DocumentRegistry = <<>>
    /\ Filename \in Concatenations(Segments, MaxSegments)
    /\ DocID = <<>>
    /\ Content = <<>>
    /\ Resolved = <<>>
    /\ unused

\* DocID = <<GetDocumentID(Filename)>>
CallGetDocumentID ==
    /\ DocID = <<>>
    /\ DocID' = <<GetDocumentID(Filename)>>
    /\ UNCHANGED <<Filename, Content, Resolved, SourcePath, SourceCategory, PathOut, Extracted, Returned>>
    /\ UNCHANGED runVars

NextId == CallGetDocumentID

SpecId == InitId /\ [][NextId]_vars

-----------------------------------------------------------------------------
(* ProcessCrossReferences on generated texts, applied once and again. *)

Fragments ==
    {<<"[","1","0","-","2","0","]">>, <<"[","9","9","-","9","9","]">>, <<"[","2","0","-","1","0"," ","§","1",".","2","]">>, <<"[","D","E","C","I","S","I","O","N","-","2","0","2","5","0","1","0","1","-","1","]">>,
     <<"x">>, <<"[">>, <<"]">>, <<"(">>}

Registries ==
    {<<>>, <<RegistryEntry("f1")>>, <<RegistryEntry("f2"), RegistryEntry("f1")>>,
     <<RegistryEntry("f1"), RegistryEntry("f6")>>}

InitXref ==
    /\ idle
    /\ DocumentRegistry \in Registries
    /\ Filename = <<>>
    /\ DocID = <<>>
    /\ Content \in Concatenations(Fragments, MaxFragments)
    /\ Resolved = <<>>
    /\ unused

\* Resolved = <<ProcessCrossReferences(Content, DocumentRegistry)>>
Resolve ==
    /\ Resolved = <<>>
    /\ Resolved' = <<ProcessCrossReferences(Content, DocumentRegistry)>>
    /\ UNCHANGED <<Filename, DocID, Content, SourcePath, SourceCategory, PathOut, Extracted, Returned>>
    /\ UNCHANGED runVars

\* the resolver is applied to its own output
ResolveAgain ==
    /\ Len(Resolved) = 1
    /\ Resolved' = Append(Resolved, ProcessCrossReferences(Resolved[1], DocumentRegistry))
    /\ UNCHANGED <<Filename, DocID, Content, SourcePath, SourceCategory, PathOut, Extracted, Returned>>
    /\ UNCHANGED runVars

\* Returned = <<ValidateReferences(ExtractReferences(Content), DocumentRegistry)>>
CallValidateReferences ==
    /\ Returned = <<>>
    /\ Returned' = <<ValidateReferences(ExtractReferences(Content), DocumentRegistry)>>
    /\ UNCHANGED <<Filename, DocID, Content, Resolved, SourcePath, SourceCategory, PathOut, Extracted>>
    /\ UNCHANGED runVars

NextXref == Resolve \/ ResolveAgain \/ CallValidateReferences

SpecXref == InitXref /\ [][NextXref]_vars

-----------------------------------------------------------------------------
(* GenerateOutputPath on generated relative paths. *)

NameSegments ==
    {<<"1","2","-","2","1">>, <<"-">>, <<"_">>, <<"a">>, <<".">>, <<".","m","d">>, <<".","t","x","t">>}

\* the names a pathlib.Path can end with
Names == Concatenations(NameSegments, MaxSegments) \ {<<>>, <<".">>, <<".",".">>}

Directories == {<<>>, <<"a","/">>, <<"1","2","-","2","1","-","b","/">>}

Categories == {<<>>, <<"v","i","s","i","o","n">>}

InitPath ==
    /\ idle
    /\ DocumentRegistry = <<>>
    /\ Filename = <<>>
    /\ DocID = <<>>
    /\ Content = <<>>
    /\ Resolved = <<>>
    /\ SourcePath \in {d \o n : d \in Directories, n \in Names}
    /\ SourceCategory \in Categories
    /\ PathOut = <<>>
    /\ Extracted = <<>>
    /\ Returned = <<>>

\* PathOut = <<GenerateOutputPath(SourcePath, SourceCategory, OutputDir)>>
CallGenerateOutputPath ==
    /\ PathOut = <<>>
    /\ PathOut' = <<GenerateOutputPath(SourcePath, SourceCategory, OutputDir)>>
    /\ UNCHANGED <<Filename, DocID, Content, Resolved, SourcePath, SourceCategory, Extracted, Returned>>
    /\ UNCHANGED runVars

NextPath == CallGenerateOutputPath

SpecPath == InitPath /\ [][NextPath]_vars

-----------------------------------------------------------------------------
(* ExtractMetadata on generated document texts. *)

MetaPieces ==
    {<<"#"," ","T","\n">>,
     <<"x","\n","#"," ","U","\n">>,
     <<"[","T","i","t","l","e",":"," ","Z","]">>,
     <<"[","S","t","a","t","u","s",":"," ","a","]","\n">>,
     <<"[","s","t","a","t","u","s",":"," "," ","b"," ","]">>,
     <<"[","C","o","n","t","e","x","t",":"," "," ","]">>,
     <<"*","*","C","r","e","a","t","e","d",":"," ","2","0","2","5","-","0","3","-","1","5","*","*","\n">>,
     <<"*","*","C","r","e","a","t","e","d",":"," ","M","a","r","c","h"," ","5",","," ","2","0","2","5"," "," ","3",":","1","5"," ","P","M","*","*","\n">>,
     <<"*","*","C","r","e","a","t","e","d",":"," "," ","s","o","o","n"," ","*","*","\n">>,
     <<"*","*","L","a","s","t"," ","M","o","d","i","f","i","e","d",":"," ","2","0","2","4","-","0","2","-","2","9"," ","2","3",":","5","9","*","*","\n">>,
     <<"[","C","r","e","a","t","e","d","_","A","t",":"," ","y","]">>,
     <<"[","d","o","c","_","n","u","m","b","e","r",":"," ","7","]">>,
     <<"1","0","-","2","0","\n">>}

InitMeta ==
    /\ idle
    /\ DocumentRegistry = <<>>
    /\ Filename = <<>>
    /\ DocID = <<>>
    /\ Content \in Concatenations(MetaPieces, MaxPieces)
    /\ Resolved = <<>>
    /\ SourcePath = <<>>
    /\ SourceCategory = <<>>
    /\ PathOut = <<>>
    /\ Extracted = <<>>
    /\ Returned = <<>>

\* Extracted = <<ExtractMetadata(Content)>>
CallExtractMetadata ==
    /\ Extracted = <<>>
    /\ Extracted' = <<ExtractMetadata(Content)>>
    /\ UNCHANGED <<Filename, DocID, Content, Resolved, SourcePath, SourceCategory, PathOut, Returned>>
    /\ UNCHANGED runVars

\* Returned = <<GenerateJekyllFrontMatter(Metadata)>> for the extracted
\* metadata; yaml.dump returns or raises
CallGenerateJekyllFrontMatter ==
    /\ Extracted # <<>>
    /\ Returned = <<>>
    /\ \E raised \in BOOLEAN :
          Returned' = <<[raised |-> raised,
                         block |-> IF raised THEN ManualFrontMatter(Extracted[1])
                                   ELSE GenerateJekyllFrontMatter(Extracted[1])]>>
    /\ UNCHANGED <<Filename, DocID, Content, Resolved, SourcePath, SourceCategory, PathOut, Extracted>>
    /\ UNCHANGED runVars

NextMeta == CallExtractMetadata \/ CallGenerateJekyllFrontMatter

SpecMeta == InitMeta /\ [][NextMeta]_vars

-----------------------------------------------------------------------------
(* RemoveMetadataHeader on generated document texts. *)

HeaderLines ==
    {<<"#"," ","T","\n">>,
     <<"*","*","C","r","e","a","t","e","d",":"," ","d","*","*","\n">>,
     <<"*","*","L","a","s","t"," ","M","o","d","i","f","i","e","d",":"," ","d","*","*","\n">>,
     <<"[","K",":"," ","v","]","\n">>,
     <<"\n">>,
     <<" ","\n">>,
     <<"x","\n">>,
     <<"[","1","0","-","2","0","]"," ","x","\n">>,
     <<"[","t","]","(","u",")","\n">>}

InitHeader ==
    /\ idle
    /\ DocumentRegistry = <<>>
    /\ Filename = <<>>
    /\ DocID = <<>>
    /\ Content \in Concatenations(HeaderLines, MaxPieces)
    /\ Resolved = <<>>
    /\ unused

\* Returned = <<RemoveMetadataHeader(Content)>>
CallRemoveMetadataHeader ==
    /\ Returned = <<>>
    /\ Returned' = <<RemoveMetadataHeader(Content)>>
    /\ UNCHANGED <<Filename, DocID, Content, Resolved, SourcePath, SourceCategory, PathOut, Extracted>>
    /\ UNCHANGED runVars

SpecHeader == InitHeader /\ [][CallRemoveMetadataHeader]_vars

-----------------------------------------------------------------------------
(* ProcessJekyllIncompatibleContent on generated texts. *)

InitEscape ==
    /\ idle
    /\ DocumentRegistry = <<>>
    /\ Filename = <<>>
    /\ DocID = <<>>
    /\ Content \in Concatenations({<<"{","%"," ">>,
                                  <<"{","{"," ">>,
                                  <<" ","}","}">>,
                                  <<" ","%","}">>,
                                  <<"{","{","{">>,
                                  <<"}","}","}">>,
                                  <<"x">>,
                                  <<" ">>}, MaxPieces)
    /\ Resolved = <<>>
    /\ unused

\* Returned = <<ProcessJekyllIncompatibleContent(Content)>>
CallProcessJekyllIncompatibleContent ==
    /\ Returned = <<>>
    /\ Returned' = <<ProcessJekyllIncompatibleContent(Content)>>
    /\ UNCHANGED <<Filename, DocID, Content, Resolved, SourcePath, SourceCategory, PathOut, Extracted>>
    /\ UNCHANGED runVars

SpecEscape == InitEscape /\ [][CallProcessJekyllIncompatibleContent]_vars

-----------------------------------------------------------------------------
(* ParseTimestamp on generated timestamp strings. *)

DateParts ==
    {<<"M","a","r","c","h"," ","5",","," ","2","0","2","5"," ">>,
     <<"M","a","r","c","h"," ","5"," ","2","0","2","5"," ">>,
     <<"S","e","p","t"," ","5"," ","2","0","2","5"," ">>,
     <<"F","e","b","r","u","a","r","y"," ","3","0"," ","2","0","2","5"," ">>,
     <<"M","a","r","c","h"," ","5"," ","0","0","0","0"," ">>,
     <<"M","a","y"," ","3","1",",","2","0","2","4"," "," ">>,
     <<"m","a","r","c","h"," ","5"," ","2","0","2","5"," ">>,
     <<"2","0","2","5","-","0","3","-","1","5"," ">>}

TimeParts ==
    {<<"3",":","1","5">>, <<"1","2",":","0","0">>, <<"0",":","3","0">>, <<"1","3",":","0","7">>, <<"2","4",":","0","0">>, <<"3",":","6","0">>, <<"1","1",":","5","9">>, <<"x">>}

MeridiemParts ==
    {<<>>, <<" ","P","M">>, <<"P","M">>, <<" ","A","M">>, <<"A","M">>, <<" ","p","m">>}

InitTime ==
    /\ idle
    /\ DocumentRegistry = <<>>
    /\ Filename = <<>>
    /\ DocID = <<>>
    /\ Content \in {d \o t \o p : d \in DateParts, t \in TimeParts, p \in MeridiemParts}
    /\ Resolved = <<>>
    /\ unused

\* Returned = <<ParseTimestamp(Content)>>
CallParseTimestamp ==
    /\ Returned = <<>>
    /\ Returned' = <<ParseTimestamp(Content)>>
    /\ UNCHANGED <<Filename, DocID, Content, Resolved, SourcePath, SourceCategory, PathOut, Extracted>>
    /\ UNCHANGED runVars

SpecTime == InitTime /\ [][CallParseTimestamp]_vars

-----------------------------------------------------------------------------
(* Properties of Run. *)

PassOne == "_BuildDocumentRegistry"
PassTwo == "_ProcessDocuments"

\* the positions of Log at which a pass handled a file
FileEvents(step) == {i \in 1..Len(Log) : Log[i].step = step /\ Log[i].file # "-"}

\* the positions of Log at which a top-level call of Run raised
RaisedCalls == {i \in 1..Len(Log) : Log[i].file = "-" /\ Log[i].outcome = "raised"}

\* the loop of a pass has run to its end
PassDone(step) == \E i \in 1..Len(Log) : Log[i] = Event(step, "-", "ok", <<>>)

Found == {MarkdownFiles[k] : k \in 1..Len(MarkdownFiles)}

IdOf(f) == GetDocumentID(PathName(RelPath(f)))

\* the start positions of p in s
Occurrences(s, p) == {i \in 1..Len(s) : StartsWithAt(s, i, p)}

\* C1: within one Run, pass 2 handles no file before pass 1 has gone through
\* every file that was found: every pass-1 event precedes every pass-2 event,
\* and once pass 2 has handled a file, pass 1 has handled each found file once.
C1_PassOneBeforePassTwo ==
    FileEvents(PassTwo) # {} =>
        /\ \A i \in FileEvents(PassOne), j \in FileEvents(PassTwo) : i < j
        /\ {Log[i].file : i \in FileEvents(PassOne)} = Found
        /\ Cardinality(FileEvents(PassOne)) = Len(MarkdownFiles)
        /\ PassDone(PassOne)

\* two files are registered by pass 1 and then written by pass 2
C1_Witness ==
    /\ pc = "returned"
    /\ Cardinality({i \in FileEvents(PassOne) : Log[i].outcome = "registered"}) = 2
    /\ Cardinality({i \in FileEvents(PassTwo) : Log[i].outcome = "written"}) = 2

\* C2: once pass 1 is over, no later step of the same Run changes the
\* registry: pass 2 and the resolver only read it.
C2_RegistryFrozenAfterPassOne ==
    [][PassDone(PassOne) /\ PassDone(PassOne)' => DocumentRegistry' = DocumentRegistry]_vars

C2_Witness ==
    /\ pc = "returned"
    /\ result = "True"
    /\ Len(DocumentRegistry) = 2
    /\ \E i \in FileEvents(PassTwo) : Log[i].outcome = "written"

\* the files this Run has registered, and those whose output it has written
Registered == {Log[i].file : i \in {j \in FileEvents(PassOne) : Log[j].outcome = "registered"}}
Written == {Log[i].file : i \in {j \in FileEvents(PassTwo) : Log[j].outcome = "written"}}

DocRef(Id) == <<"[">> \o Id \o <<"]">>
DocLink(Id, Registry) == DocRef(Id) \o <<"(">> \o Entry(Registry, Id).url \o <<")">>

\* C3: for files A and B registered in this Run, every "[id(B)]" of A's
\* transformed body is, in the output written for A, a link to the URL the
\* registry holds for B, wherever B comes in the scan order (B = A included).
C3_ReferencesResolveInAnyOrder ==
    \A A \in Written \cap Registered, B \in Registered :
        LET Body == ProcessDocument(FileContent(A))
            Out == OutputFiles[OutputPath(A)]
        IN Out.src = A =>
              /\ Cardinality(Occurrences(Out.body, DocLink(IdOf(B), DocumentRegistry)))
                    = Cardinality(Occurrences(Body, DocRef(IdOf(B))))
              /\ Occurrences(Out.body, DocRef(IdOf(B)))
                    = Occurrences(Out.body, DocLink(IdOf(B), DocumentRegistry))

\* f1 is scanned first and refers to itself and to f2, which is scanned later
C3_Witness ==
    /\ MarkdownFiles = <<"f1", "f2">>
    /\ {"f1", "f2"} \subseteq Registered
    /\ "f1" \in Written
    /\ OutputFiles[OutputPath("f1")].src = "f1"
    /\ Occurrences(OutputFiles[OutputPath("f1")].body, DocLink(IdOf("f2"), DocumentRegistry)) # {}
    /\ Occurrences(OutputFiles[OutputPath("f1")].body, DocLink(IdOf("f1"), DocumentRegistry)) # {}

\* C4: the resolver is idempotent on its own output; applied to a text it
\* has already resolved, it returns that text unchanged.  The code does not
\* keep this: "[10-20]" inside the link "[10-20](url)" is matched again.
C4_ResolverIdempotent ==
    Len(Resolved) = 2 => Resolved[2] = Resolved[1]

\* C5: any two distinct files whose output was written in one Run were
\* written to distinct paths.  The code does not keep this: the path is
\* built from the identifier alone once the category is mapped.
C5_DistinctOutputPaths ==
    \A i, j \in FileEvents(PassTwo) :
        /\ Log[i].outcome = "written"
        /\ Log[j].outcome = "written"
        /\ Log[i].file # Log[j].file
        => Log[i].path # Log[j].path

\* C6: the registry does not outlast a Run; when pass 2 of a Run starts,
\* every registry entry belongs to a file found by that same Run.  The code
\* does not keep this: only the constructor empties the registry.
C6_RegistryOfThisRunOnly ==
    pc = PassTwo =>
        \A k \in 1..Len(DocumentRegistry) :
            \E f \in Found : IdOf(f) = DocumentRegistry[k].id

\* C7: a failure while one file is handled, in either pass, stays with that
\* file: each pass still handles every found file, the files that did not
\* fail are registered and written, every later step of Run is executed,
\* and Run returns True unless a top-level step itself raised.
C7_FileFailureIsolated ==
    /\ \A step \in {PassOne, PassTwo} :
          PassDone(step) =>
              /\ {Log[i].file : i \in FileEvents(step)} = Found
              /\ Cardinality(FileEvents(step)) = Len(MarkdownFiles)
    /\ \A f \in Registered : InRegistry(DocumentRegistry, IdOf(f))
    /\ \A i \in FileEvents(PassTwo) :
          Log[i].outcome = "written" => Log[i].path \in DOMAIN OutputFiles
    /\ (pc = "returned" /\ RaisedCalls = {}) =>
          /\ result = "True"
          /\ \A k \in 1..Len(RunSteps) :
                \E i \in 1..Len(Log) : Log[i] = Event(RunSteps[k], "-", "ok", <<>>)

\* one file fails to load in pass 1, one fails to be written in pass 2,
\* another file is registered and written, and Run returns True
C7_Witness ==
    /\ pc = "returned"
    /\ result = "True"
    /\ \E i \in FileEvents(PassOne) : Log[i].outcome = "load raised"
    /\ \E i \in FileEvents(PassTwo) : Log[i].outcome = "write raised"
    /\ \E i \in FileEvents(PassTwo) :
          /\ Log[i].outcome = "written"
          /\ Log[i].file \in Registered

\* C8: an exception that escapes a top-level step ends Run: no later step
\* is executed and Run returns False.  When that step is the creation of
\* the output root, the files are not even looked for, neither pass runs,
\* nothing is registered and nothing is written.
C8_FatalFailureAborts ==
    /\ \A i \in RaisedCalls :
          /\ i = Len(Log)
          /\ pc = "returned"
          /\ result = "False"
    /\ (1 \in RaisedCalls) =>
          /\ Log = <<Event("EnsureDirectoryExists", "-", "raised", <<>>)>>
          /\ MarkdownFiles = <<>>
          /\ DocumentRegistry = <<>>
          /\ DOMAIN OutputFiles = {}

\* the output root cannot be created although there are files to convert
C8_Witness ==
    /\ pc = "returned"
    /\ result = "False"
    /\ InputFiles # {}
    /\ Log = <<Event("EnsureDirectoryExists", "-", "raised", <<>>)>>

\* a later top-level step raises after both passes have run
C8_WitnessLate ==
    /\ pc = "returned"
    /\ result = "False"
    /\ Log[Len(Log)] = Event("_GenerateCategoryPages", "-", "raised", <<>>)
    /\ Written # {}

\* the files whose name carries no document identifier
Unidentified == {f \in FileIds : IdOf(f) = <<>>}

\* C9: a file without identifier is skipped by both passes: it gets no
\* registry entry, no output file and no error, and does not change the
\* result of Run.
C9_UnidentifiedSkipped ==
    \A f \in Unidentified :
        /\ \A i \in 1..Len(Log) :
              Log[i].file = f => Log[i].outcome \in {"skipped", "load raised"}
        /\ \A p \in DOMAIN OutputFiles : OutputFiles[p].src # f
        /\ \A k \in 1..Len(DocumentRegistry) :
              /\ DocumentRegistry[k].id # <<>>
              /\ DocumentRegistry[k].path # OutputPath(f)
        /\ (pc = "returned" /\ f \in Found /\ RaisedCalls = {}) => result = "True"

C9_Witness ==
    /\ pc = "returned"
    /\ result = "True"
    /\ \E f \in Unidentified :
          /\ \E i \in FileEvents(PassOne) : Log[i].file = f /\ Log[i].outcome = "skipped"
          /\ \E i \in FileEvents(PassTwo) : Log[i].file = f /\ Log[i].outcome = "skipped"
    /\ Written # {}

-----------------------------------------------------------------------------
(* Properties of GetDocumentID. *)

\* two digits, a hyphen, two digits
IsIdentifier(s) ==
    /\ Len(s) = 5
    /\ \A k \in {1, 2, 4, 5} : s[k] \in Digit
    /\ s[3] = "-"

\* the identifiers that occur in f
IdentifiersIn(f) ==
    {id \in {SubSeq(f, i, i + 4) : i \in 1..(Len(f) - 4)} : IsIdentifier(id)}

\* f is id, a separator, and anything
LeadsWith(f, id) ==
    \E sep \in {"-", " ", "_"} :
        /\ Len(f) >= 6
        /\ SubSeq(f, 1, 6) = id \o <<sep>>

\* f is id.md
IsWhole(f, id) == f \in {id \o MdExt, id \o MdExt \o <<"\n">>}

\* f is anything, a hyphen, and id.md
EndsWith(f, id) ==
    \E k \in 0..Len(f) :
        f \in {SubSeq(f, 1, k) \o <<"-">> \o id \o MdExt,
               SubSeq(f, 1, k) \o <<"-">> \o id \o MdExt \o <<"\n">>}

\* C10: GetDocumentID returns the identifier of the first pattern that
\* matches, the patterns taken in the order leading, whole name, suffix: a
\* name with a leading identifier gives those two digit groups whatever
\* follows, and a name that matches no pattern gives the empty string.
C10_FirstMatchingPattern ==
    DocID # <<>> =>
        LET ids == IdentifiersIn(Filename)
            leading == {id \in ids : LeadsWith(Filename, id)}
            whole == {id \in ids : IsWhole(Filename, id)}
            suffix == {id \in ids : EndsWith(Filename, id)}
        IN /\ leading # {} => DocID[1] \in leading
           /\ (leading = {} /\ whole # {}) => DocID[1] \in whole
           /\ (leading = {} /\ whole = {} /\ suffix # {}) => DocID[1] \in suffix
           /\ (leading = {} /\ whole = {} /\ suffix = {}) => DocID[1] = <<>>

\* a name such as 12-21-21-12.md, whose leading and final identifiers differ
C10_Witness ==
    /\ DocID # <<>>
    /\ \E id \in IdentifiersIn(Filename) :
          /\ LeadsWith(Filename, id)
          /\ DocID[1] = id
          /\ \E other \in IdentifiersIn(Filename) : other # id /\ EndsWith(Filename, other)

-----------------------------------------------------------------------------
(* Properties of ProcessCrossReferences. *)

\* the text before position i of s, and the text from position j on
Before(s, i) == SubSeq(s, 1, i - 1)
After(s, j) == SubSeq(s, j, Len(s))

\* Resolved[1] is Content with the span i..j replaced by link, the text on
\* either side of the span being resolved on its own
SpanBecomes(i, j, link) ==
    Resolved[1] = ProcessCrossReferences(Before(Content, i), DocumentRegistry)
                  \o link
                  \o ProcessCrossReferences(After(Content, j + 1), DocumentRegistry)

\* the document references of Content, by position; those with a known
\* identifier, and the others
DocRefs == {i \in 1..Len(Content) : DocRefAt(Content, i)}
KnownDocRefs == {i \in DocRefs : InRegistry(DocumentRegistry, SubSeq(Content, i + 1, i + 5))}

\* C11: a document reference [DD-DD] whose identifier is in the registry is
\* replaced, that bracket span and nothing else, by [DD-DD](url) with the
\* URL of the registry entry; the identifier in the brackets is unchanged.
C11_DocRefBecomesLink ==
    Len(Resolved) >= 1 =>
        \A i \in KnownDocRefs :
            LET Id == SubSeq(Content, i + 1, i + 5)
            IN SpanBecomes(i, i + 6,
                   <<"[">> \o Id \o <<"]", "(">> \o Entry(DocumentRegistry, Id).url \o <<")">>)

\* a known reference with text on both sides of it
C11_Witness ==
    /\ Len(Resolved) >= 1
    /\ \E i \in KnownDocRefs : i > 1 /\ i + 6 < Len(Content)

\* the section references of Content, by position
SectionRefs == {i \in 1..Len(Content) : SectionRefEnd(Content, i) # 0}
KnownSectionRefs ==
    {i \in SectionRefs : InRegistry(DocumentRegistry, SubSeq(Content, i + 1, i + 5))}

\* C12: a document or section reference whose identifier is not in the
\* registry is in the result exactly as it was in the text: not dropped and
\* not made a link.
C12_UnresolvedLeftVerbatim ==
    Len(Resolved) >= 1 =>
        /\ \A i \in DocRefs \ KnownDocRefs :
              SpanBecomes(i, i + 6, SubSeq(Content, i, i + 6))
        /\ \A i \in SectionRefs \ KnownSectionRefs :
              SpanBecomes(i, SectionRefEnd(Content, i),
                          SubSeq(Content, i, SectionRefEnd(Content, i)))

\* an unknown document reference and an unknown section reference in one
\* text, resolved against a registry that is not empty
C12_Witness ==
    /\ Len(Resolved) >= 1
    /\ DocumentRegistry # <<>>
    /\ DocRefs \ KnownDocRefs # {}
    /\ SectionRefs \ KnownSectionRefs # {}

\* C13: a section reference [DD-DD §N.N] whose document identifier is in
\* the registry becomes [DD-DD §N.N](url#anchor), url being the entry's URL
\* and anchor the section number without its period.
C13_SectionRefBecomesLink ==
    Len(Resolved) >= 1 =>
        \A i \in KnownSectionRefs :
            LET e == SectionRefEnd(Content, i)
                Id == SubSeq(Content, i + 1, i + 5)
                Section == SubSeq(Content, i + 8, e - 1)
                Anchor == SelectSeq(Section, LAMBDA c : c # ".")
            IN SpanBecomes(i, e,
                   <<"[">> \o Id \o <<" ", "§">> \o Section \o <<"]", "(">>
                   \o Entry(DocumentRegistry, Id).url \o <<"#">> \o Anchor \o <<")">>)

C13_Witness ==
    /\ Len(Resolved) >= 1
    /\ \E i \in KnownSectionRefs : i > 1

\* the decision references of Content, by position
DecisionRefs == {i \in 1..Len(Content) : DecisionRefEnd(Content, i) # 0}

\* the registry entries whose title starts with DECISION and contains Id
DecisionEntries(Id) ==
    {k \in 1..Len(DocumentRegistry) :
        /\ Len(DocumentRegistry[k].title) >= 8
        /\ SubSeq(DocumentRegistry[k].title, 1, 8) = DecisionWord
        /\ \E a \in 1..Len(DocumentRegistry[k].title) :
              SubSeq(DocumentRegistry[k].title, a, a + Len(Id) - 1) = Id}

\* C14: every decision reference [DECISION-YYYYMMDD-N] becomes a link,
\* whatever the registry: to the URL of an entry whose title starts with
\* DECISION and contains the decision id when there is one, else to the
\* fixed governance/decisions path; the anchor is the lowercased id.
C14_DecisionRefAlwaysLink ==
    Len(Resolved) >= 1 =>
        \A i \in DecisionRefs :
            LET e == DecisionRefEnd(Content, i)
                Id == SubSeq(Content, i + 1, e - 1)
                Anchor == <<"d","e","c","i","s","i","o","n">> \o SubSeq(Id, 9, Len(Id))
            IN IF DecisionEntries(Id) # {}
               THEN \E k \in DecisionEntries(Id) :
                        SpanBecomes(i, e, <<"[">> \o Id \o <<"]", "(">>
                            \o DocumentRegistry[k].url \o <<"#">> \o Anchor \o <<")">>)
               ELSE SpanBecomes(i, e, <<"[">> \o Id \o <<"]", "(">>
                        \o GovernancePath \o Anchor \o <<")">>)

\* a decision reference after other text, its decision document registered
C14_Witness ==
    /\ Len(Resolved) >= 1
    /\ \E i \in DecisionRefs :
          /\ i > 1
          /\ DecisionEntries(SubSeq(Content, i + 1, DecisionRefEnd(Content, i) - 1)) # {}

\* a decision reference that no registry entry answers
C14_WitnessFallback ==
    /\ Len(Resolved) >= 1
    /\ DocumentRegistry # <<>>
    /\ \E i \in DecisionRefs :
          DecisionEntries(SubSeq(Content, i + 1, DecisionRefEnd(Content, i) - 1)) = {}

-----------------------------------------------------------------------------
(* Properties of the registry entries and of the output paths. *)

\* the category of the two-digit prefix of Id, empty when it has none
CategoryOfPrefix(Id) ==
    IF \E p \in DOMAIN CategoryMappings : p = SubSeq(Id, 1, 2)
    THEN CategoryMappings[SubSeq(Id, 1, 2)]
    ELSE <<>>

\* C15: every registry entry made by pass 1 has the URL
\* {BaseURL}/docs/{category}/{identifier}/, identifier being its key and
\* category the one of the identifier's two-digit prefix, empty when that
\* prefix is not mapped.
C15_RegistryUrlFormat ==
    \A k \in 1..Len(DocumentRegistry) :
        LET e == DocumentRegistry[k]
        IN /\ IsIdentifier(e.id)
           /\ e.category = CategoryOfPrefix(e.id)
           /\ e.url = BaseURL \o <<"/","d","o","c","s","/">> \o CategoryOfPrefix(e.id)
                      \o <<"/">> \o e.id \o <<"/">>

\* 10-20 is in the category vision, the prefix 15 is in none
C15_Witness ==
    /\ Len(DocumentRegistry) = 2
    /\ \E k \in 1..2 :
          /\ DocumentRegistry[k].id = <<"1","0","-","2","0">>
          /\ DocumentRegistry[k].url = BaseURL \o <<"/","d","o","c","s","/","v","i","s","i","o","n","/","1","0","-","2","0","/">>
    /\ \E k \in 1..2 :
          /\ DocumentRegistry[k].id = <<"1","5","-","0","1">>
          /\ DocumentRegistry[k].url = BaseURL \o <<"/","d","o","c","s","/","/","1","5","-","0","1","/">>

\* the identifier a filename yields: that of its leading identifier, else of
\* the whole name, else of its suffix; no element when it yields none
IdentifiersOf(f) ==
    LET ids == IdentifiersIn(f)
        leading == {id \in ids : LeadsWith(f, id)}
        whole == {id \in ids : IsWhole(f, id)}
        suffix == {id \in ids : EndsWith(f, id)}
    IN IF leading # {} THEN leading ELSE IF whole # {} THEN whole ELSE suffix

\* the last component of a relative path
LastComponent(p) ==
    LET slashes == {i \in 1..Len(p) : p[i] = "/"}
    IN IF slashes = {} THEN p ELSE SubSeq(p, Max(slashes) + 1, Len(p))

\* ext is the extension of the name: it starts at the last "." of the name,
\* which is neither the first nor the last character of the name
IsExtension(name, ext) ==
    /\ Len(ext) >= 2
    /\ Len(ext) < Len(name)
    /\ ext = SubSeq(name, Len(name) - Len(ext) + 1, Len(name))
    /\ ext[1] = "."
    /\ \A k \in 2..Len(ext) : ext[k] # "."

\* q is p with the extension of its name replaced by .md, or with .md added
\* when the name has no extension
MirrorsWithMd(p, q) ==
    \E n \in 0..Len(p) :
        /\ q = SubSeq(p, 1, n) \o <<".", "m", "d">>
        /\ \/ IsExtension(LastComponent(p), SubSeq(p, n + 1, Len(p)))
           \/ /\ n = Len(p)
              /\ \A m \in 1..Len(p) : ~IsExtension(LastComponent(p), SubSeq(p, m, Len(p)))

\* C16: GenerateOutputPath returns {OutputDir}/docs/{category}/{identifier}.md
\* when the category is not empty and the filename yields an identifier; in
\* every other case it returns the relative path under {OutputDir}/docs/
\* with the extension .md.
C16_OutputPathCases ==
    PathOut # <<>> =>
        LET ids == IdentifiersOf(LastComponent(SourcePath))
            docs == OutputDir \o <<"/","d","o","c","s","/">>
        IN IF SourceCategory # <<>> /\ ids # {}
           THEN \E id \in ids :
                   PathOut[1] = docs \o SourceCategory \o <<"/">> \o id \o <<".","m","d">>
           ELSE /\ Len(PathOut[1]) > Len(docs)
                /\ SubSeq(PathOut[1], 1, Len(docs)) = docs
                /\ MirrorsWithMd(SourcePath, SubSeq(PathOut[1], Len(docs) + 1, Len(PathOut[1])))

\* a file in a directory, with identifier and category
C16_Witness ==
    /\ PathOut # <<>>
    /\ SourceCategory # <<>>
    /\ IdentifiersOf(LastComponent(SourcePath)) # {}
    /\ LastComponent(SourcePath) # SourcePath

\* a file with a category whose name yields no identifier, and whose
\* extension is not .md
C16_WitnessMirrored ==
    /\ PathOut # <<>>
    /\ SourceCategory # <<>>
    /\ IdentifiersOf(LastComponent(SourcePath)) = {}
    /\ LastComponent(SourcePath) # SourcePath
    /\ IsExtension(LastComponent(SourcePath), <<".","t","x","t">>)

\* the files whose text has no level-1 heading and no title tag
Untitled == {f \in FileIds : TitleKey \notin DOMAIN ExtractMetadata(FileContent(f))}

\* C17: for a document whose metadata has no title, the filename stem is
\* the title in its registry entry and in the front matter of its output
\* file.  The code does not keep the second: pass 2 hands the metadata to
\* GenerateJekyllFrontMatter as it is, which writes "Untitled Document".
C17_TitleDefaultsToStem ==
    \A f \in Untitled :
        /\ (f \in Registered /\ Entry(DocumentRegistry, IdOf(f)).path = OutputPath(f)
                /\ Entry(DocumentRegistry, IdOf(f)).metadata = ExtractMetadata(FileContent(f)))
              => Entry(DocumentRegistry, IdOf(f)).title = PathStem(RelPath(f))
        /\ (f \in Written /\ OutputFiles[OutputPath(f)].src = f)
              => \E k \in 1..Len(OutputFiles[OutputPath(f)].front) :
                    OutputFiles[OutputPath(f)].front[k] = <<TitleKey, PathStem(RelPath(f))>>

-----------------------------------------------------------------------------
(* Properties of ExtractMetadata. *)

\* the text of the first level-1 heading line of Text
FirstHeading(Text) ==
    LET Lines == SplitLines(Text)
        k == Min(TitleLines(Text))
    IN Strip(SubSeq(Lines[k], 3, Len(Lines[k])))

\* C18: the title in the metadata of a text is the text of its first
\* level-1 heading line, wherever that line is, and a text without such a
\* line has no title key.  The code does not keep this: the tag loop runs
\* after the title step, so a [Title: ...] tag replaces the heading's title
\* and gives a title to a text that has no heading.
C18_TitleIsFirstHeading ==
    Extracted # <<>> =>
        IF TitleLines(Content) = {}
        THEN TitleKey \notin DOMAIN Extracted[1]
        ELSE /\ TitleKey \in DOMAIN Extracted[1]
             /\ Extracted[1][TitleKey] = FirstHeading(Content)

\* the value a marker captures in Text: group 1 of its match
Captured(Text, Marker) ==
    SubSeq(Text, MarkerGroup(Text, Marker)[1], MarkerGroup(Text, Marker)[2])

\* the fields of one marker: the verbatim field is the captured value; the
\* normalized field is there exactly when the value parses, and is its date
MarkerFields(Metadata, Text, Marker, AtKey, DateKey) ==
    MarkerGroup(Text, Marker) # <<0, 0>> =>
        /\ AtKey \in DOMAIN Metadata
        /\ Metadata[AtKey] = Captured(Text, Marker)
        /\ DateKey \in DOMAIN Metadata <=> ParseTimestamp(Captured(Text, Marker)) # <<>>
        /\ DateKey \in DOMAIN Metadata =>
              Metadata[DateKey] = FormatDate(ParseTimestamp(Captured(Text, Marker)))

\* C19: when the Created (Last Modified) marker matches, created_at
\* (modified_at) is the value captured from the marker, and created_date
\* (modified_date) is present exactly when ParseTimestamp succeeds on that
\* value and is then its YYYY-MM-DD date.  The code does not keep this: it
\* stores the captured value stripped of its surrounding whitespace, and
\* the tag loop that follows overwrites the verbatim field with the value
\* of a [Created_At: ...] tag while the normalized field stays.
C19_MarkerFieldsKept ==
    Extracted # <<>> =>
        /\ MarkerFields(Extracted[1], Content, CreatedPattern, CreatedAtKey, CreatedDateKey)
        /\ MarkerFields(Extracted[1], Content, ModifiedPattern, ModifiedAtKey, ModifiedDateKey)

\* the starts of the matches re.finditer(ContextPattern, s) yields from i
RECURSIVE TagMatches(_, _)
TagMatches(s, i) ==
    LET at == {k \in i..Len(s) : TagEnd(s, k) # 0}
    IN IF at = {} THEN {}
       ELSE {Min(at)} \cup TagMatches(s, TagEnd(s, Min(at)) + 1)

TagKey(s, k) == Lower(SubSeq(s, k + 1, TagColon(s, k) - 1))

TagValue(s, k) == Strip(SubSeq(s, TagColon(s, k) + 2, TagEnd(s, k) - 1))

\* C20: every [Key: Value] tag of the text sets metadata[lowercase(Key)] to
\* the trimmed Value, the last occurrence of a key in document order being
\* the one in the result.  The code does not keep this for the key
\* doc_number: the identifier scan that follows the tag loop assigns
\* doc_number whenever the text holds a DD-DD pattern.
C20_TagsLastWins ==
    Extracted # <<>> =>
        \A k \in TagMatches(Content, 1) :
            (\A n \in TagMatches(Content, 1) : TagKey(Content, n) = TagKey(Content, k) => n <= k)
                => /\ TagKey(Content, k) \in DOMAIN Extracted[1]
                   /\ Extracted[1][TagKey(Content, k)] = TagValue(Content, k)

-----------------------------------------------------------------------------
(* Properties of GenerateJekyllFrontMatter. *)

\* the keys the block is to hold for Metadata, in order
ExpectedKeys(Metadata) ==
    <<<<"l","a","y","o","u","t">>, TitleKey, DocNumberKey, CategoryKey>>
    \o SelectSeq(<<CreatedAtKey, ModifiedAtKey>>, LAMBDA k : k \in DOMAIN Metadata)
    \o SelectSeq(OptionalFields, LAMBDA k : k \in DOMAIN Metadata /\ Metadata[k] # <<>>)

\* C21: the block GenerateJekyllFrontMatter returns holds exactly the keys
\* layout, title, doc_number, category, then created_at and modified_at
\* when the metadata has them, then each of context, status, version,
\* component, priority that the metadata has with a non-empty value, in
\* this order and with the metadata's values (title "Untitled Document"
\* when absent); no other key of the metadata is in it, and a block is
\* returned also when yaml.dump raises.
C21_FrontMatterKeys ==
    Returned # <<>> =>
        LET block == Returned[1].block
            Metadata == Extracted[1]
        IN /\ [k \in 1..Len(block) |-> block[k][1]] = ExpectedKeys(Metadata)
           /\ block[1][2] = <<"d","o","c","u","m","e","n","t">>
           /\ block[2][2] = Get(Metadata, TitleKey, <<"U","n","t","i","t","l","e","d"," ","D","o","c","u","m","e","n","t">>)
           /\ block[3][2] = Get(Metadata, DocNumberKey, <<>>)
           /\ block[4][2] = Get(Metadata, CategoryKey, <<>>)
           /\ \A k \in 5..Len(block) : block[k][2] = Metadata[block[k][1]]

\* yaml.dump raised for a metadata that has a key outside the list
\* (created_date), an empty context and a status
C21_Witness ==
    /\ Returned # <<>>
    /\ Returned[1].raised
    /\ CreatedDateKey \in DOMAIN Extracted[1]
    /\ OptionalFields[1] \in DOMAIN Extracted[1]
    /\ Extracted[1][OptionalFields[1]] = <<>>
    /\ OptionalFields[2] \in DOMAIN Extracted[1]
    /\ Len(Returned[1].block) = 6

-----------------------------------------------------------------------------
(* Properties of RemoveMetadataHeader. *)

\* a [Key: Value] tag line: the line begins with a tag
IsTagLine(line) == TagEnd(line, 1) # 0

\* a Created/Modified marker, a tag line or a blank line
IsHeaderLine(line) ==
    \/ StartsWithAt(line, 1, CreatedMarker)
    \/ StartsWithAt(line, 1, ModifiedMarker)
    \/ IsTagLine(line)
    \/ IsBlank(line)

\* the index of the first line after the optional title line that is no
\* header line, Len(Lines) + 1 when there is none
HeaderEnd(Lines) ==
    LET first == IF StartsWithAt(Lines[1], 1, <<"#", " ">>) THEN 2 ELSE 1
    IN Min({k \in first..(Len(Lines) + 1) : k = Len(Lines) + 1 \/ ~IsHeaderLine(Lines[k])})

\* the result holds the lines of Content from some index of Among on
ReturnedFrom(Among) ==
    \E k \in Among : Returned[1] = JoinLinesFrom(SplitLines(Content), k)

\* C22: RemoveMetadataHeader drops the whole leading run (after the
\* optional title line) of marker, tag and blank lines, in whatever order
\* they occur.  The code does not keep this: it skips markers and blank
\* lines first and tag and blank lines after, so a marker that follows a
\* tag line stays.
C22_HeaderRunDropped ==
    Returned # <<>> =>
        ReturnedFrom(HeaderEnd(SplitLines(Content))..(Len(SplitLines(Content)) + 1))

\* C23: RemoveMetadataHeader stops at the first line that is no marker, no
\* tag line and not blank: no line from that one on is removed.  The code
\* does not keep this: its second loop drops every line that begins with
\* "[" and holds a "]", such as a line that begins with a [DD-DD] reference
\* or a [text](url) link.
C23_BodyLinesKept ==
    Returned # <<>> =>
        ReturnedFrom(1..HeaderEnd(SplitLines(Content)))

\* C24: the result of RemoveMetadataHeader is a suffix of the line sequence
\* of its input: the lines after the first retained one are returned
\* unchanged and in order.
C24_PrefixOnlyStrip ==
    Returned # <<>> =>
        ReturnedFrom(1..(Len(SplitLines(Content)) + 1))

\* a line was removed, and a tag line or a marker that comes later stays
C24_Witness ==
    /\ Returned # <<>>
    /\ Returned[1] # Content
    /\ Len(SplitLines(Returned[1])) >= 2
    /\ \E k \in 2..Len(SplitLines(Returned[1])) :
          \/ IsTagLine(SplitLines(Returned[1])[k])
          \/ StartsWithAt(SplitLines(Returned[1])[k], 1, CreatedMarker)

-----------------------------------------------------------------------------
(* Properties of ProcessJekyllIncompatibleContent. *)

\* the sequences to escape, each with its escape form
Escapes ==
    <<<<<<"{","%"," ">>,
        <<"{","{"," ","\"","{","%"," ","\""," ","}","}">>>>,
      <<<<"{","{"," ">>,
        <<"{","{"," ","\"","{","{"," ","\""," ","}","}">>>>,
      <<<<" ","}","}">>,
        <<" ","{","{"," ","\"","}","}","\""," ","}","}">>>>,
      <<<<" ","%","}">>,
        <<" ","{","{"," ","\"","%","}","\""," ","}","}">>>>,
      <<<<"{","{","{">>,
        <<"&","#","1","2","3",";","&","#","1","2","3",";","&","#","1","2","3",";">>>>,
      <<<<"}","}","}">>,
        <<"&","#","1","2","5",";","&","#","1","2","5",";","&","#","1","2","5",";">>>>>>

\* the escapes whose sequence occurs in s at position i
EscapesAt(s, i) == {e \in 1..Len(Escapes) : StartsWithAt(s, i, Escapes[e][1])}

\* every occurrence met from position i on, left to right, is replaced by
\* its escape form; the text between the occurrences is copied
RECURSIVE Escaped(_, _)
Escaped(s, i) ==
    LET at == {k \in i..Len(s) : EscapesAt(s, k) # {}}
    IN IF at = {} THEN SubSeq(s, i, Len(s))
       ELSE LET e == Escapes[Min(EscapesAt(s, Min(at)))]
            IN SubSeq(s, i, Min(at) - 1) \o e[2] \o Escaped(s, Min(at) + Len(e[1]))

\* C25: ProcessJekyllIncompatibleContent is the simultaneous substitution
\* of the occurrences of the input: each is replaced by its escape form,
\* and neither the other text nor an escape form is rewritten by another
\* replacement.  The code does not keep this: it applies six str.replace
\* calls one after the other, and the later ones rewrite the escape forms
\* that the earlier ones produced.
C25_SimultaneousEscape ==
    Returned # <<>> => Returned[1] = Escaped(Content, 1)

-----------------------------------------------------------------------------
(* Properties of ParseTimestamp. *)

\* no fixed template matches s
NoTemplate(s) == \A k \in 1..Len(Formats) : Strptime(s, Formats[k]) = {}

\* the hour of the day for the groups of a match of the tolerant pattern
NormalizedHour(Match) ==
    CASE Match.AMPM = <<"A","M">> /\ ToInt(Match.Hour) = 12 -> 0
      [] Match.AMPM = <<"P","M">> /\ ToInt(Match.Hour) < 12 -> ToInt(Match.Hour) + 12
      [] OTHER -> ToInt(Match.Hour)

\* the month name of a match is none of the twelve, or a number is out of
\* range
Unrepresentable(Match) ==
    \/ Match.Month \notin {MonthNames[k] : k \in 1..12}
    \/ ToInt(Match.Year) \notin 1..9999
    \/ ToInt(Match.Day) \notin 1..DaysIn(ToInt(Match.Year),
                                         CHOOSE k \in 1..12 : MonthNames[k] = Match.Month)
    \/ NormalizedHour(Match) \notin 0..23
    \/ ToInt(Match.Minute) \notin 0..59

\* C26: when no fixed template matches, ParseTimestamp fails if the
\* tolerant pattern does not match either, if the month name it matched
\* is none of the twelve names or if a numeric component is out of range;
\* else it returns a time whose hour is 0 for 12 AM, H + 12 for PM with H
\* below 12, and H otherwise.
C26_FallbackHour ==
    (Returned # <<>> /\ NoTemplate(Content)) =>
        IF FlexibleMatch(Content) = <<>> THEN Returned[1] = <<>>
        ELSE IF Unrepresentable(FlexibleMatch(Content)) THEN Returned[1] = <<>>
        ELSE /\ Returned[1] # <<>>
             /\ Returned[1][4] = NormalizedHour(FlexibleMatch(Content))

\* the fallback turned 12 AM into hour 0
C26_Witness ==
    /\ Returned # <<>>
    /\ NoTemplate(Content)
    /\ FlexibleMatch(Content) # <<>>
    /\ FlexibleMatch(Content).AMPM = <<"A","M">>
    /\ FlexibleMatch(Content).Hour = <<"1","2">>
    /\ Returned[1] # <<>>
    /\ Returned[1][4] = 0

\* the fallback added 12 to a PM hour
C26_WitnessAfternoon ==
    /\ Returned # <<>>
    /\ NoTemplate(Content)
    /\ FlexibleMatch(Content) # <<>>
    /\ FlexibleMatch(Content).AMPM = <<"P","M">>
    /\ Returned[1] # <<>>
    /\ Returned[1][4] = 15

\* the fallback matched a month name that is none of the twelve
C26_WitnessMonth ==
    /\ Returned = <<<<>>>>
    /\ NoTemplate(Content)
    /\ FlexibleMatch(Content) # <<>>
    /\ FlexibleMatch(Content).Month = <<"S","e","p","t">>

-----------------------------------------------------------------------------
(* Properties of the output files. *)

\* the value the front matter of the output file at path p gives to Key
FrontValue(p, Key) ==
    LET front == OutputFiles[p].front
    IN front[CHOOSE k \in 1..Len(front) : front[k][1] = Key][2]

\* C27: in every output file written in pass 2 the front matter's
\* doc_number is the identifier of the source filename and its category is
\* the category of that identifier's prefix, whatever tags and DD-DD
\* strings the document text holds.
C27_FrontMatterIdentity ==
    \A f \in Written :
        OutputFiles[OutputPath(f)].src = f =>
            /\ FrontValue(OutputPath(f), DocNumberKey) = IdOf(f)
            /\ FrontValue(OutputPath(f), CategoryKey) = CategoryOfPrefix(IdOf(f))

\* f5, whose text has a [Category: q] and a [Doc_number: 7] tag, is written
C27_Witness ==
    /\ "f5" \in Written
    /\ OutputFiles[OutputPath("f5")].src = "f5"
    /\ FileMetadata["f5"][DocNumberKey] = <<"7">>
    /\ FileMetadata["f5"][CategoryKey] = <<"q">>
    /\ FrontValue(OutputPath("f5"), DocNumberKey) = <<"1","5","-","0","1">>

\* f2, in whose text the identifier scan finds 25-03, is written
C27_WitnessScan ==
    /\ "f2" \in Written
    /\ OutputFiles[OutputPath("f2")].src = "f2"
    /\ FileMetadata["f2"][DocNumberKey] = <<"2","5","-","0","3">>
    /\ FrontValue(OutputPath("f2"), DocNumberKey) = <<"2","0","-","1","0">>

\* the registry pass 1 builds from an empty one when it scans the files in
\* the order given and no file fails, from position k on
RECURSIVE RegistryInOrder(_, _, _)
RegistryInOrder(order, k, Registry) ==
    IF k > Len(order) THEN Registry
    ELSE RegistryInOrder(order, k + 1,
                         IF IdOf(order[k]) = <<>> THEN Registry
                         ELSE Register(Registry, RegistryEntry(order[k])))

\* a pass has met a failure on a file
FileFailures == {i \in 1..Len(Log) : Log[i].file # "-" /\ Log[i].outcome \notin {"registered", "written", "skipped"}}

\* C28: when the source files have distinct identifiers and no file fails,
\* the result of a Run is the one any other scan order of the same files
\* gives: the registry maps the same identifiers to the same entries and
\* every output file has the same content.  The code does not keep this:
\* ReplaceDecisionRef links a decision reference to the first registry
\* entry, in insertion order, whose title starts with DECISION and holds
\* the id, so with two such documents the link depends on the scan order.
C28_ScanOrderIndependent ==
    (/\ PassDone(PassTwo)
     /\ FileFailures = {}
     /\ \A f, g \in InputFiles : f # g => IdOf(f) # IdOf(g))
    => \A order \in Orders(InputFiles) :
          /\ {DocumentRegistry[k] : k \in 1..Len(DocumentRegistry)}
                = {RegistryInOrder(order, 1, <<>>)[k] :
                      k \in 1..Len(RegistryInOrder(order, 1, <<>>))}
          /\ \A f \in Written :
                OutputFiles[OutputPath(f)] = JekyllContent(f, RegistryInOrder(order, 1, <<>>))

\* C30: when pass 2 of a Run is over, every file it wrote an output for was
\* registered by pass 1 of that Run and its identifier has a registry entry.
\* The code does not keep this: _ProcessDocuments loads and converts every
\* found file anew and never looks its identifier up in the registry, so a
\* file whose load raised in pass 1 and succeeds in pass 2 is written.
C30_WrittenAreRegistered ==
    PassDone(PassTwo) =>
        \A f \in Written :
            /\ f \in Registered
            /\ InRegistry(DocumentRegistry, IdOf(f))

-----------------------------------------------------------------------------
(* Properties of ValidateReferences against ProcessCrossReferences. *)

\* x in list
Listed(list, x) == \E k \in 1..Len(list) : list[k] = x

\* the span i..j of Content is in Resolved[1] as it was in Content
LeftVerbatim(i, j) == SpanBecomes(i, j, SubSeq(Content, i, j))

\* the decision reference at span i..j of Content is linked to the fixed
\* governance/decisions path
LinkedToFallback(i, j) ==
    SpanBecomes(i, j, SubSeq(Content, i, j) \o <<"(">> \o GovernancePath
                      \o Lower(SubSeq(Content, i + 1, j - 1)) \o <<")">>)

\* C29: ValidateReferences(ExtractReferences(T), R) and
\* ProcessCrossReferences(T, R) agree on every reference of T: a document
\* or section reference is reported invalid exactly when the resolver
\* leaves it verbatim (the document list also holding the identifier of
\* each section reference), a decision reference exactly when the resolver
\* links it to the governance/decisions path, and nothing that is not a
\* reference of T is reported.
C29_ValidationMatchesLinking ==
    (Len(Resolved) >= 1 /\ Returned # <<>>) =>
        /\ \A i \in DocRefs :
              Listed(Returned[1].documents, SubSeq(Content, i + 1, i + 5))
                  <=> LeftVerbatim(i, i + 6)
        /\ \A i \in SectionRefs :
              /\ Listed(Returned[1].sections,
                        SubSeq(Content, i + 1, SectionRefEnd(Content, i) - 1))
                    <=> LeftVerbatim(i, SectionRefEnd(Content, i))
              /\ Listed(Returned[1].documents, SubSeq(Content, i + 1, i + 5))
                    <=> LeftVerbatim(i, SectionRefEnd(Content, i))
        /\ \A i \in DecisionRefs :
              Listed(Returned[1].decisions,
                     SubSeq(Content, i + 1, DecisionRefEnd(Content, i) - 1))
                  <=> LinkedToFallback(i, DecisionRefEnd(Content, i))
        /\ \A k \in 1..Len(Returned[1].documents) :
              \E i \in DocRefs \cup SectionRefs :
                  SubSeq(Content, i + 1, i + 5) = Returned[1].documents[k]
        /\ \A k \in 1..Len(Returned[1].sections) :
              \E i \in SectionRefs :
                  SubSeq(Content, i + 1, SectionRefEnd(Content, i) - 1) = Returned[1].sections[k]
        /\ \A k \in 1..Len(Returned[1].decisions) :
              \E i \in DecisionRefs :
                  SubSeq(Content, i + 1, DecisionRefEnd(Content, i) - 1) = Returned[1].decisions[k]

\* a text with a known and an unknown document reference and a decision
\* reference no entry answers, checked against a registry that is not empty
C29_Witness ==
    /\ Len(Resolved) >= 1
    /\ Returned # <<>>
    /\ DocumentRegistry # <<>>
    /\ KnownDocRefs # {}
    /\ Returned[1].documents # <<>>
    /\ Returned[1].decisions # <<>>

\* an unknown section reference beside a decision reference whose decision
\* document is registered
C29_WitnessFound ==
    /\ Len(Resolved) >= 1
    /\ Returned # <<>>
    /\ Returned[1].sections # <<>>
    /\ \E i \in DecisionRefs :
          DecisionEntries(SubSeq(Content, i + 1, DecisionRefEnd(Content, i) - 1)) # {}

====
